---- MODULE Spec2Model ----
(***************************************************************************)
(* A model of the El Farol simulation core (el_farol_sim):                 *)
(*   simulation_logic/policy.rs      Policy.decide / name                   *)
(*   simulation_logic/agent.rs       Agent                                  *)
(*   simulation_logic/game.rs        Game.run, one round                    *)
(*   simulation_logic/simulation.rs  Simulation.run_iteration,              *)
(*                                   adapt_strategies                       *)
(*   bin/simulation.rs               the driver loop over num_iterations    *)
(* and of the legacy Agent / Game / Simulation of agent/mod.rs,             *)
(* game/mod.rs and simulation.rs.                                           *)
(*                                                                         *)
(* f64 values are modelled as exact rationals <<n, d>> in lowest terms      *)
(* (d > 0); an Option<f64> is the empty sequence (None) or <<v>> (Some v).  *)
(* Every value thread_rng produces is an input of the action that draws it. *)
(***************************************************************************)
EXTENDS Integers, Sequences, FiniteSets, TLC

VARIABLES
    config,       \* SimulationConfig
    grid,         \* Game.grid : row-major cell index -> Agent
    history,      \* Game.history
    predictions,  \* the local Vec `predictions` of Game::run
    new_grid,     \* the local `new_grid` of adapt_strategies
    cell,         \* the loop position (i * grid_size + j) of adapt_strategies
    pc,           \* where the driver is
    iteration,    \* the loop counter of main
    round,        \* the loop counter `_round` of run_iteration
    frame,        \* the Frame the last run_iteration returned (None before)
    num_frames,   \* data_vec.len() of main: the Frames pushed so far
    instance,     \* a policy instance whose decide is called directly
    weights,      \* WeightedHistoryPolicy.weights of that instance (the Mutex's Vec)
    lock,         \* the holder of that Mutex (None when free)
    calls         \* the decide calls made on the instance, one record per caller

vars == <<config, grid, history, predictions, new_grid, cell, pc,
          iteration, round, frame, num_frames, instance, weights, lock, calls>>

\* the state of a directly called policy instance
policy_vars == <<instance, weights, lock, calls>>

----------------------------------------------------------------------------
(* Bounds of the model *)

MaxRounds == 2
MaxIterations == 2
MaxDistance == 1

\* the grid sizes explored (grid_size x grid_size agents)
GridSizes == {0, 1, 2}

----------------------------------------------------------------------------
(* Exact rational arithmetic standing for f64 *)

RECURSIVE GCD(_, _)
GCD(a, b) == IF b = 0 THEN a ELSE GCD(b, a % b)

IAbs(x) == IF x < 0 THEN -x ELSE x

Rat(n, d) ==
    LET g == GCD(IAbs(n), d)
    IN  IF n = 0 THEN <<0, 1>>
        ELSE IF n < 0 THEN <<-(IAbs(n) \div g), d \div g>>
        ELSE <<n \div g, d \div g>>

Zero == <<0, 1>>
One == <<1, 1>>

RAdd(a, b) == Rat(a[1] * b[2] + b[1] * a[2], a[2] * b[2])
RSub(a, b) == Rat(a[1] * b[2] - b[1] * a[2], a[2] * b[2])
RMul(a, b) == Rat(a[1] * b[1], a[2] * b[2])
RDivInt(a, k) == Rat(a[1], a[2] * k)
RAbs(a) == <<IAbs(a[1]), a[2]>>
RLt(a, b) == a[1] * b[2] < b[1] * a[2]
RLe(a, b) == a[1] * b[2] <= b[1] * a[2]
RMax(a, b) == IF RLt(a, b) THEN b ELSE a

RECURSIVE RSum(_)
RSum(s) == IF s = <<>> THEN Zero ELSE RAdd(s[1], RSum(Tail(s)))

\* |a| < 10^-6, computed without leaving the 32-bit integers:
\* n * 10^6 < d  <=>  n <= (d - 1) \div 10^6   (n >= 0, d > 0)
Million == 1000000
AbsBelowEps(a) == IAbs(a[1]) <= (a[2] - 1) \div Million

None == <<>>
Some(v) == <<v>>

\* f64::NAN, kept apart from the rationals: every comparison with it is false
NaN == <<0, 0>>

\* no policy instance is called directly
PolicyIdle ==
    /\ instance = None
    /\ weights = <<>>
    /\ lock = None
    /\ calls = <<>>

----------------------------------------------------------------------------
(* simulation_logic/policy.rs *)

AlwaysGoName == "Always Go"
NeverGoName == "Never Go"
YesterdayName == "Predict from yesterday"
RandomName == "Random"

\* what rand::random::<f64>() may return to RandomPolicy: one value below the
\* capacity threshold and the threshold itself
RandomDraws == {Rat(1, 2), Rat(3, 5)}

\* the values thread_rng can give a policy of this name in one decide call
PolicyDraws(name) == IF name = RandomName THEN RandomDraws ELSE {Zero}

\* StrategyId = u8 has 256 values
NumStrategyIds == 256

\* MovingAveragePolicy::<WINDOW_SIZE>::name
MovingAverageName(window_size) ==
    "Moving Average (" \o ToString(window_size) \o ")"

\* the window sizes of the MovingAveragePolicy instances configured
MovingAverageWindows == 0..NumStrategyIds

\* the WINDOW_SIZE of the MovingAveragePolicy called `name`
WindowOf(name) ==
    CHOOSE w \in MovingAverageWindows : name = MovingAverageName(w)

\* a.saturating_sub(b) on usize
SaturatingSub(a, b) == IF a > b THEN a - b ELSE 0

\* MovingAveragePolicy::decide
MovingAverageDecide(window_size, hist) ==
    IF hist = <<>> \/ window_size = 0 THEN Zero
    ELSE LET start == SaturatingSub(Len(hist), window_size)
             relevant_history == SubSeq(hist, start + 1, Len(hist))
         IN  IF relevant_history = <<>> THEN Zero
             ELSE RDivInt(RSum(relevant_history), Len(relevant_history))

\* UniformPolicy::name of UniformPolicy::new(0.5, 0.5)
DegenerateUniformName == "Uniform [0.5..0.5)"

\* Policy::decide of the policy called `name` panics: Uniform::new(low, high)
\* in UniformPolicy::decide, for low = high
PolicyDecidePanics(name) == name = DegenerateUniformName

\* Policy::decide of the policy called `name`; rnd is what the random source
\* returns (read by RandomPolicy alone)
PolicyDecide(name, hist, rnd) ==
    CASE name = AlwaysGoName -> Zero
      [] name = NeverGoName -> One
      [] name = YesterdayName ->
            IF Len(hist) > 0 THEN hist[Len(hist)] ELSE Zero
      [] name = RandomName -> rnd
      [] OTHER -> MovingAverageDecide(WindowOf(name), hist)

----------------------------------------------------------------------------
(* simulation_logic/agent.rs *)

\* Agent::new
AgentNew(policy) ==
    [current_policy |-> policy, performance_history |-> <<>>,
     last_prediction |-> None]

\* the name of the policy instance an agent holds: initial_strategies[p].name()
PolicyName(p) == config.initial_strategies[p]

\* Agent::update_performance panics exactly when there is no last prediction
update_performance_panics(agent) == agent.last_prediction = None

\* a score that keeps the sign of the error
update_performance_signed(agent, actual_attendance_ratio) ==
    IF agent.last_prediction # None
    THEN [agent EXCEPT !.performance_history =
            Append(@, RSub(agent.last_prediction[1], actual_attendance_ratio))]
    ELSE agent

\* Agent::update_performance (on the branch that does not panic)
update_performance(agent, actual_attendance_ratio) ==
    IF agent.last_prediction # None
    THEN [agent EXCEPT !.performance_history =
            Append(@, RAbs(RSub(agent.last_prediction[1],
                                actual_attendance_ratio)))]
    ELSE agent

Hundred == <<100, 1>>

\* a score without the clamp at zero
performance_unclamped(agent) ==
    IF agent.performance_history = <<>>
    THEN Zero
    ELSE LET avg_error == RDivInt(RSum(agent.performance_history),
                                  Len(agent.performance_history))
         IN  RMul(RSub(One, avg_error), Hundred)

\* Agent::performance
performance(agent) ==
    IF agent.performance_history = <<>>
    THEN Zero
    ELSE LET avg_error == RDivInt(RSum(agent.performance_history),
                                  Len(agent.performance_history))
         IN  RMul(RMax(RSub(One, avg_error), Zero), Hundred)

\* a clear that leaves the record as it is
clear_performance_history_kept(agent) == agent

\* a clearing that rebuilds the agent with Agent::new and so drops its last
\* prediction too
clear_performance_history_new_agent(agent) == AgentNew(agent.current_policy)

\* Agent::clear_performance_history
clear_performance_history(agent) ==
    [agent EXCEPT !.performance_history = <<>>]

\* a neighbor list is a sequence of <<agent, performance>> pairs
RECURSIVE MaxPerf(_)
MaxPerf(neighbors) ==
    IF neighbors = <<>> THEN <<-1, 1>>   \* stands for NEG_INFINITY
    ELSE RMax(MaxPerf(Tail(neighbors)), neighbors[1][2])

\* the increasing sequence of the indices i of 1..n with P(i)
IndexSeq(n, P(_)) == SelectSeq([i \in 1..n |-> i], P)

\* best_indices of greedy_policy_selection
BestIndices(neighbors) ==
    LET max_perf == MaxPerf(neighbors)
        Best(i) == AbsBelowEps(RSub(neighbors[i][2], max_perf))
    IN  IndexSeq(Len(neighbors), Best)

\* Agent::greedy_policy_selection; r is the position rng picks in the slice
\* it chooses from
greedy_policy_selection(neighbors, r) ==
    LET best_indices == BestIndices(neighbors)
    IN  IF best_indices # <<>>
        THEN neighbors[best_indices[(r % Len(best_indices)) + 1]][1].current_policy
        ELSE neighbors[(r % Len(neighbors)) + 1][1].current_policy

\* f64 exp(x) is 0.0 for x below about -745.13
ExpUnderflow == 745

\* the weight exp((perf - max_perf) / temperature) is a positive f64
WeightPositive(perf, max_perf, temperature) ==
    LET diff == RSub(max_perf, perf)
    IN  diff[1] * temperature[2] <= ExpUnderflow * diff[2] * temperature[1]

\* the indices WeightedIndex can return: those of positive weight; none when
\* the weights are NaN, which WeightedIndex::new rejects
PositiveIndices(neighbors, temperature) ==
    LET max_perf == MaxPerf(neighbors)
        Pos(i) == WeightPositive(neighbors[i][2], max_perf, temperature)
    IN  IF temperature = NaN THEN <<>>
        ELSE IndexSeq(Len(neighbors), Pos)

\* a selection that answers a failed WeightedIndex::new with the second
\* configured policy, whoever the neighbors are
softmax_policy_selection_base(neighbors, temperature, r) ==
    LET positive == PositiveIndices(neighbors, temperature)
    IN  IF positive # <<>>
        THEN neighbors[positive[(r % Len(positive)) + 1]][1].current_policy
        ELSE 2

\* Agent::softmax_policy_selection; WeightedIndex::new fails when no weight
\* is positive, and the choice is then uniform over the neighbors
softmax_policy_selection(neighbors, temperature, r) ==
    LET positive == PositiveIndices(neighbors, temperature)
    IN  IF positive # <<>>
        THEN neighbors[positive[(r % Len(positive)) + 1]][1].current_policy
        ELSE neighbors[(r % Len(neighbors)) + 1][1].current_policy

\* temperature < 1e-6 (false for NaN)
IsGreedy(temperature) == temperature[1] * Million < temperature[2]

\* a selection that falls back on the first configured policy, whoever the
\* neighbors are
choose_new_policy_first_configured(neighbors, temperature, r) == 1

\* Agent::choose_new_policy
choose_new_policy(neighbors, temperature, r) ==
    IF IsGreedy(temperature)
    THEN greedy_policy_selection(neighbors, r)
    ELSE softmax_policy_selection(neighbors, temperature, r)

\* the number of outcomes the selection draw of choose_new_policy has
SelectionChoices(neighbors, temperature) ==
    LET c == IF IsGreedy(temperature)
             THEN BestIndices(neighbors)
             ELSE PositiveIndices(neighbors, temperature)
    IN  IF c # <<>> THEN Len(c) ELSE Len(neighbors)

\* the retention test with the comparison turned round
RetainedInverted(u, policy_retention_rate) == RLt(policy_retention_rate, u)

\* rng.gen::<f64>() < policy_retention_rate
Retained(u, policy_retention_rate) == RLt(u, policy_retention_rate)

\* an adapt_strategy that installs the chosen policy and keeps the record
adapt_strategy_record_kept(agent, neighbors, temperature, policy_retention_rate, d) ==
    IF neighbors = <<>> THEN agent
    ELSE IF Retained(d[1], policy_retention_rate) THEN agent
    ELSE [agent EXCEPT !.current_policy =
                           choose_new_policy(neighbors, temperature, d[2])]

\* Agent::adapt_strategy; d = <<u, r>> are the two values drawn: u by
\* rng.gen::<f64>() and r by the selection
adapt_strategy(agent, neighbors, temperature, policy_retention_rate, d) ==
    IF neighbors = <<>> THEN agent
    ELSE IF Retained(d[1], policy_retention_rate) THEN agent
    ELSE LET new_policy == choose_new_policy(neighbors, temperature, d[2])
         IN  IF PolicyName(agent.current_policy) # PolicyName(new_policy)
             THEN [agent EXCEPT !.current_policy = new_policy,
                                !.performance_history = <<>>]
             ELSE [agent EXCEPT !.current_policy = new_policy]

----------------------------------------------------------------------------
(* simulation_logic/simulation.rs: SimulationConfig and Simulation::new *)

\* the values of the configuration explored
Temperatures == {Zero, Rat(1, 10)}
RetentionRates == {Rat(1, 2), One}
\* one more policy than StrategyId has values, all of different names:
\* MovingAveragePolicy::<0>, ::<1>, ..
ManyPolicies == [i \in 1..(NumStrategyIds + 1) |-> MovingAverageName(i - 1)]

StrategyLists ==
    { <<AlwaysGoName, NeverGoName>>,
      <<YesterdayName, NeverGoName>>,
      <<AlwaysGoName, NeverGoName, YesterdayName>>,
      <<NeverGoName, RandomName>>,
      ManyPolicies }

\* the lists explored with start_random: every assignment of their policies
\* to the cells is an initial grid
RandomInitLists ==
    { <<YesterdayName, NeverGoName>>, <<NeverGoName, RandomName>>, ManyPolicies }

\* is a policy of this name in the list
Configured(strategies, name) == \E i \in 1..Len(strategies) : strategies[i] = name

\* the values rng.gen::<f64>() may return to adapt_strategy (in [0, 1))
RetentionDraws == {Zero, Rat(1, 2)}

\* the configurations explored: a grid with RandomPolicy agents has at most
\* one cell, the long list is explored on a grid of one cell, a NaN
\* temperature on a grid of four; the randomly filled grids are explored
\* with the largest neighbor_distance, and a retention rate of 1.0, under
\* which no agent ever selects, with one temperature and one distance
Configs ==
    { c \in [grid_size : GridSizes,
             neighbor_distance : 0..MaxDistance,
             temperature : Temperatures \cup {NaN},
             policy_retention_rate : RetentionRates,
             num_iterations : {MaxIterations},
             rounds_per_update : 0..MaxRounds,
             initial_strategies : StrategyLists,
             start_random : BOOLEAN] :
        /\ c.start_random => c.initial_strategies \in RandomInitLists
        /\ c.start_random => c.neighbor_distance = MaxDistance
        /\ c.policy_retention_rate = One =>
              /\ c.temperature = Zero
              /\ c.neighbor_distance = MaxDistance
        /\ Configured(c.initial_strategies, RandomName) => c.grid_size <= 1
        /\ c.initial_strategies = ManyPolicies =>
              /\ c.start_random
              /\ c.grid_size = 1
              /\ c.neighbor_distance = MaxDistance
              /\ c.temperature = Zero
              /\ c.policy_retention_rate = One
              /\ c.rounds_per_update <= 1
        /\ c.temperature = NaN =>
              /\ c.grid_size = 2
              /\ c.neighbor_distance = 1
              /\ c.policy_retention_rate = Rat(1, 2)
              /\ c.initial_strategies = <<AlwaysGoName, NeverGoName, YesterdayName>> }

\* the grid is grid_size x grid_size; cell (i, j) has the row-major index
\* i * grid_size + j, the order of Array2::iter
NumCells(cfg) == cfg.grid_size * cfg.grid_size
Cells(cfg) == 0..(NumCells(cfg) - 1)
Row(cfg, k) == k \div cfg.grid_size
Col(cfg, k) == k % cfg.grid_size
CellAt(cfg, i, j) == i * cfg.grid_size + j

\* base_policy: the first policy named "Never Go", else the first policy
BasePolicy(strategies) ==
    LET named == IndexSeq(Len(strategies), LAMBDA i : strategies[i] = NeverGoName)
    IN  IF named # <<>> THEN named[1] ELSE 1

\* other_policies: the policies whose name is not the base policy's
OtherPolicies(strategies) ==
    LET base == BasePolicy(strategies)
    IN  IndexSeq(Len(strategies), LAMBDA i : strategies[i] # strategies[base])

\* a corner setup with the second and third corner policies exchanged
CornerGridTransposed(cfg) ==
    LET gs == cfg.grid_size
        base == BasePolicy(cfg.initial_strategies)
        other == OtherPolicies(cfg.initial_strategies)
        corner(n) == AgentNew(other[(n % Len(other)) + 1])
    IN  [k \in Cells(cfg) |->
            IF other = <<>> THEN AgentNew(base)
            ELSE IF k = CellAt(cfg, gs - 1, gs - 1) /\ gs > 1 THEN corner(3)
            ELSE IF k = CellAt(cfg, gs - 1, 0) /\ gs > 1 THEN corner(1)
            ELSE IF k = CellAt(cfg, 0, gs - 1) /\ gs > 1 THEN corner(2)
            ELSE IF k = CellAt(cfg, 0, 0) THEN corner(0)
            ELSE AgentNew(base)]

\* the grid of the "Never Go with corners" setup (start_random = false)
CornerGrid(cfg) ==
    LET gs == cfg.grid_size
        base == BasePolicy(cfg.initial_strategies)
        other == OtherPolicies(cfg.initial_strategies)
        corner(n) == AgentNew(other[(n % Len(other)) + 1])
        filled == [k \in Cells(cfg) |-> AgentNew(base)]
        tl == IF gs > 0
              THEN [filled EXCEPT ![CellAt(cfg, 0, 0)] = corner(0)]
              ELSE filled
        tr == IF gs > 1
              THEN [tl EXCEPT ![CellAt(cfg, 0, gs - 1)] = corner(1)]
              ELSE tl
        bl == IF gs > 1
              THEN [tr EXCEPT ![CellAt(cfg, gs - 1, 0)] = corner(2)]
              ELSE tr
        br == IF gs > 1
              THEN [bl EXCEPT ![CellAt(cfg, gs - 1, gs - 1)] = corner(3)]
              ELSE bl
    IN  IF other # <<>> THEN br ELSE filled

\* the grids Simulation::new can build: any assignment of the configured
\* policies when start_random, the corner setup otherwise
InitialGrids(cfg) ==
    IF cfg.start_random
    THEN { [k \in Cells(cfg) |-> AgentNew(a[k])] :
             a \in [Cells(cfg) -> 1..Len(cfg.initial_strategies)] }
    ELSE { CornerGrid(cfg) }

\* strategy_map: collecting into the HashMap keeps, for a name, the id of
\* its last occurrence; the id is the index as a u8
StrategyIdOf(strategies, name) ==
    LET named == IndexSeq(Len(strategies), LAMBDA i : strategies[i] = name)
    IN  (named[Len(named)] - 1) % 256

\* the state Simulation::new and Game::new leave
Init ==
    /\ config \in Configs
    /\ grid \in InitialGrids(config)
    /\ history = <<>>
    /\ predictions = <<>>
    /\ new_grid = grid
    /\ cell = 0
    /\ pc = "main"
    /\ iteration = 0
    /\ round = 0
    /\ frame = None
    /\ num_frames = 0
    /\ PolicyIdle

----------------------------------------------------------------------------
(* bin/simulation.rs: the loop of main *)

\* for _ in 0..num_iterations: the next call of run_iteration
StartIteration ==
    /\ pc = "main"
    /\ iteration < config.num_iterations
    /\ pc' = "rounds"
    /\ round' = 0
    /\ UNCHANGED <<config, grid, history, predictions, new_grid, cell, iteration, frame, num_frames>>
    /\ UNCHANGED policy_vars

\* the loop of main is over
Finish ==
    /\ pc = "main"
    /\ iteration >= config.num_iterations
    /\ pc' = "done"
    /\ UNCHANGED <<config, grid, history, predictions, new_grid, cell, iteration, round, frame, num_frames>>
    /\ UNCHANGED policy_vars

----------------------------------------------------------------------------
(* simulation_logic/game.rs: Game::run *)

\* the capacity threshold: prediction < 0.6
Threshold == Rat(3, 5)

\* run_iteration: the next round of the batch begins (Game::run is entered)
GameRunBegin ==
    /\ pc = "rounds"
    /\ round < config.rounds_per_update
    /\ predictions' = <<>>
    /\ pc' = "predict"
    /\ UNCHANGED <<config, grid, history, new_grid, cell, iteration,
                   round, frame, num_frames>>
    /\ UNCHANGED policy_vars

\* a predict phase that shows an agent the predictions made before its own
PredictViewLeaky == history \o predictions

\* the history a policy is given in the predict phase
PredictView == history

\* the predict phase: the next agent of grid.iter() decides on self.history;
\* a panic of decide ends the program
Predict ==
    /\ pc = "predict"
    /\ Len(predictions) < NumCells(config)
    /\ LET name == PolicyName(grid[Len(predictions)].current_policy)
       IN  IF PolicyDecidePanics(name)
           THEN /\ pc' = "panic"
                /\ UNCHANGED predictions
           ELSE /\ pc' = pc
                /\ \E rnd \in PolicyDraws(name) :
                      predictions' = Append(predictions,
                                            PolicyDecide(name, PredictView, rnd))
    /\ UNCHANGED <<config, grid, history, new_grid, cell, iteration,
                   round, frame, num_frames>>
    /\ UNCHANGED policy_vars

\* a settle phase that forgets to store the predictions
WithPredictionsDropped(g, preds) == g

\* a settle phase that gives every agent the prediction of the agent after it
WithPredictionsShifted(g, preds) ==
    [k \in DOMAIN g |->
        [g[k] EXCEPT !.last_prediction = Some(preds[((k + 1) % Len(preds)) + 1])]]

\* agent.last_prediction = Some(prediction), for every agent
WithPredictions(g, preds) ==
    [k \in DOMAIN g |-> [g[k] EXCEPT !.last_prediction = Some(preds[k + 1])]]

\* an attendance count that lets a prediction at the threshold attend
AttendanceAtMost(preds) ==
    Cardinality({k \in 1..Len(preds) : RLe(preds[k], Threshold)})

\* attendance: the number of predictions below the threshold
Attendance(preds) ==
    Cardinality({k \in 1..Len(preds) : RLt(preds[k], Threshold)})

\* actual_attendance_ratio
AttendanceRatio(preds, total_agents) ==
    IF total_agents > 0 THEN Rat(Attendance(preds), total_agents) ELSE Zero

\* the settle phase: the predictions are stored, attendance is counted, every
\* agent is scored and the ratio is pushed; a panic of update_performance
\* ends the program
Settle ==
    /\ pc = "predict"
    /\ Len(predictions) = NumCells(config)
    /\ LET stored == WithPredictions(grid, predictions)
           ratio == AttendanceRatio(predictions, NumCells(config))
       IN  IF \E k \in DOMAIN stored : update_performance_panics(stored[k])
           THEN /\ pc' = "panic"
                /\ grid' = stored
                /\ UNCHANGED <<history, round>>
           ELSE /\ grid' = [k \in DOMAIN stored |->
                              update_performance(stored[k], ratio)]
                /\ history' = Append(history, ratio)
                /\ round' = round + 1
                /\ pc' = "rounds"
    /\ predictions' = <<>>
    /\ UNCHANGED <<config, new_grid, cell, iteration, frame, num_frames>>
    /\ UNCHANGED policy_vars

----------------------------------------------------------------------------
(* simulation_logic/simulation.rs: run_iteration and adapt_strategies *)

\* a scan of the clipped bounding box that keeps every cell of the box
BoxScanUnfiltered(gs, nd, k) ==
    LET i == k \div gs
        j == k % gs
        lo(x) == IF x - nd > 0 THEN x - nd ELSE 0
        hi(x) == IF x + nd < gs - 1 THEN x + nd ELSE gs - 1
        Scanned(m) ==
            LET ni == (m - 1) \div gs
                nj == (m - 1) % gs
            IN  /\ lo(i) <= ni /\ ni <= hi(i)
                /\ lo(j) <= nj /\ nj <= hi(j)
    IN  IndexSeq(gs * gs, Scanned)

\* the cells the scan of adapt_strategies visits for cell k of a grid of
\* side gs, in its order: the bounding box clipped to the grid, filtered by
\* Manhattan distance; nd is `neighbor_distance as isize`
BoxScan(gs, nd, k) ==
    LET i == k \div gs
        j == k % gs
        lo(x) == IF x - nd > 0 THEN x - nd ELSE 0
        hi(x) == IF x + nd < gs - 1 THEN x + nd ELSE gs - 1
        Scanned(m) ==
            LET ni == (m - 1) \div gs
                nj == (m - 1) % gs
            IN  /\ lo(i) <= ni /\ ni <= hi(i)
                /\ lo(j) <= nj /\ nj <= hi(j)
                /\ IAbs(i - ni) + IAbs(j - nj) <= nd
    IN  IndexSeq(gs * gs, Scanned)

\* the scan for a configured distance below 2^63, which the cast to isize
\* leaves as it is
NeighborCells(cfg, k) == BoxScan(cfg.grid_size, cfg.neighbor_distance, k)

\* the vector `neighbors` built for cell k from the grid g: each neighbor
\* with its performance()
Neighbors(cfg, g, k) ==
    LET cs == NeighborCells(cfg, k)
    IN  [n \in 1..Len(cs) |-> <<g[cs[n] - 1], performance(g[cs[n] - 1])>>]

\* an in-place pass: the neighbors are read from the grid being written
AdaptSourceInPlace == new_grid

\* the grid adapt_strategies reads the neighbors of a cell from
AdaptSource == grid

\* the end of the batch: adapt_strategies is entered, new_grid = grid.clone()
AdaptBegin ==
    /\ pc = "rounds"
    /\ round >= config.rounds_per_update
    /\ new_grid' = grid
    /\ cell' = 0
    /\ pc' = "adapt"
    /\ UNCHANGED <<config, grid, history, predictions, iteration, round, frame, num_frames>>
    /\ UNCHANGED policy_vars

\* the values thread_rng gives one adapt_strategy call: u for the retention
\* test and, when the call goes on to select, r for the selection
AdaptDraws(neighbors) ==
    { <<u, 0>> : u \in {v \in RetentionDraws :
                          Retained(v, config.policy_retention_rate)} }
    \cup { <<u, r>> :
             u \in {v \in RetentionDraws :
                      ~Retained(v, config.policy_retention_rate)},
             r \in 0..(SelectionChoices(neighbors, config.temperature) - 1) }

\* one pass of the loop body: new_grid[[i, j]].adapt_strategy(&neighbors, ..)
AdaptCell ==
    /\ pc = "adapt"
    /\ cell < NumCells(config)
    /\ LET neighbors == Neighbors(config, AdaptSource, cell)
       IN  \E d \in AdaptDraws(neighbors) :
             new_grid' = [new_grid EXCEPT ![cell] =
                 adapt_strategy(new_grid[cell], neighbors, config.temperature,
                                config.policy_retention_rate, d)]
    /\ cell' = cell + 1
    /\ UNCHANGED <<config, grid, history, predictions, pc, iteration, round, frame, num_frames>>
    /\ UNCHANGED policy_vars

\* a commit that builds a new Game around the grid, as Game::new does
set_grid_new_game(g) == [grid |-> g, history |-> <<>>]

\* Game::set_grid: the grid is replaced, the history is kept
set_grid(g) == [grid |-> g, history |-> history]

\* the second loop of adapt_strategies and set_grid: every record is cleared
\* and new_grid is moved into the game; the locals of the call are gone
AdaptCommit ==
    /\ pc = "adapt"
    /\ cell = NumCells(config)
    /\ LET game == set_grid([k \in DOMAIN new_grid |->
                                clear_performance_history(new_grid[k])])
       IN  /\ grid' = game.grid
           /\ history' = game.history
    /\ new_grid' = grid'
    /\ cell' = 0
    /\ pc' = "frame"
    /\ UNCHANGED <<config, predictions, iteration, round, frame, num_frames>>
    /\ UNCHANGED policy_vars

\* a Frame that reports the ratio of the first round ever run
FrameOfFirstRound(g, hist) ==
    [policy_ids |->
        [k \in DOMAIN g |->
            StrategyIdOf(config.initial_strategies, PolicyName(g[k].current_policy))],
     predictions |->
        [k \in DOMAIN g |->
            IF g[k].last_prediction # None THEN g[k].last_prediction[1] ELSE Zero],
     attendance_ratio |-> IF hist # <<>> THEN hist[1] ELSE Zero]

\* a Frame whose predictions are what the policies now held would have
\* predicted in the last round
FrameOfRepredicted(g, hist) ==
    [policy_ids |->
        [k \in DOMAIN g |->
            StrategyIdOf(config.initial_strategies, PolicyName(g[k].current_policy))],
     predictions |->
        [k \in DOMAIN g |->
            IF g[k].last_prediction # None
            THEN PolicyDecide(PolicyName(g[k].current_policy),
                              SubSeq(hist, 1, Len(hist) - 1), Rat(1, 2))
            ELSE Zero],
     attendance_ratio |-> IF hist # <<>> THEN hist[Len(hist)] ELSE Zero]

\* the Frame run_iteration builds from the grid and the history
FrameOf(g, hist) ==
    [policy_ids |->
        [k \in DOMAIN g |->
            StrategyIdOf(config.initial_strategies, PolicyName(g[k].current_policy))],
     predictions |->
        [k \in DOMAIN g |->
            IF g[k].last_prediction # None THEN g[k].last_prediction[1] ELSE Zero],
     attendance_ratio |-> IF hist # <<>> THEN hist[Len(hist)] ELSE Zero]

\* run_iteration returns its Frame and main pushes it to data_vec; the loop
\* counter of run_iteration is gone with the call
EmitFrame ==
    /\ pc = "frame"
    /\ frame' = Some(FrameOf(grid, history))
    /\ num_frames' = num_frames + 1
    /\ iteration' = iteration + 1
    /\ round' = 0
    /\ pc' = "main"
    /\ UNCHANGED <<config, grid, history, predictions, new_grid, cell>>
    /\ UNCHANGED policy_vars

Next ==
    \/ StartIteration
    \/ Finish
    \/ GameRunBegin
    \/ Predict
    \/ Settle
    \/ AdaptBegin
    \/ AdaptCell
    \/ AdaptCommit
    \/ EmitFrame

Spec == Init /\ [][Next]_vars

----------------------------------------------------------------------------
(* Properties *)

CellsNow == Cells(config)
RoundsExecuted == iteration * config.rounds_per_update + round
PolicyOf(g, k) == g[k].current_policy
IsNeighborCell(a, b) ==
    \E n \in 1..Len(NeighborCells(config, b)) : NeighborCells(config, b)[n] - 1 = a

\* C1: adapt_strategies is a synchronous update. At every point of the pass,
\* what a processed cell holds is what adapt_strategy gives for that cell's
\* agent and neighbors as they were in the grid before the pass began, for
\* the values it drew; a cell not yet processed is as before the pass. No
\* cell's result depends on the cells processed before it.
C1_SynchronousUpdate ==
    pc = "adapt" =>
        \A c \in CellsNow :
            IF c < cell
            THEN LET before == Neighbors(config, grid, c)
                 IN  \E d \in AdaptDraws(before) :
                        new_grid[c] =
                            adapt_strategy(grid[c], before, config.temperature,
                                           config.policy_retention_rate, d)
            ELSE new_grid[c] = grid[c]

\* two neighboring cells have both been processed and have swapped policies:
\* the second took the policy the first held before the pass
C1_Witness ==
    /\ pc = "adapt"
    /\ \E a, b \in CellsNow :
          /\ a < b /\ b < cell
          /\ IsNeighborCell(a, b)
          /\ PolicyOf(grid, a) # PolicyOf(grid, b)
          /\ PolicyOf(new_grid, a) = PolicyOf(grid, b)
          /\ PolicyOf(new_grid, b) = PolicyOf(grid, a)
          /\ \A n \in CellsNow :
                (IsNeighborCell(n, b) /\ n # a) => PolicyOf(grid, n) = PolicyOf(grid, b)

\* C2: in a round, while agents are predicting, the history is the one the
\* round started with (its length is the number of rounds completed), no
\* agent has been scored for this round, and every prediction made so far is
\* its policy's decision on that history alone.
C2_PredictPhaseCausal ==
    pc = "predict" =>
        /\ Len(history) = RoundsExecuted
        /\ \A k \in CellsNow : Len(grid[k].performance_history) = round
        /\ \A k \in 1..Len(predictions) :
              LET name == PolicyName(PolicyOf(grid, k - 1))
              IN  \E rnd \in PolicyDraws(name) :
                     predictions[k] = PolicyDecide(name, history, rnd)

\* all agents of a 2 x 2 grid have predicted in a later round; one of them
\* predicts from yesterday and an agent before it predicted something else
C2_Witness ==
    /\ pc = "predict"
    /\ NumCells(config) = 4
    /\ Len(predictions) = 4
    /\ history # <<>>
    /\ \E j, k \in 1..4 :
          /\ j < k
          /\ PolicyName(PolicyOf(grid, k - 1)) = YesterdayName
          /\ predictions[j] # predictions[k]

\* the number of agents whose last prediction is strictly below 0.6
BelowThreshold ==
    Cardinality({k \in CellsNow :
        grid[k].last_prediction[1][1] * 5 < 3 * grid[k].last_prediction[1][2]})

\* C3: the ratio of a round, the last history entry, is the number of agents
\* whose prediction of that round is strictly below 0.6 over the number of
\* agents, 0 for an empty grid; every history entry lies in [0, 1].
C3_AttendanceRatio ==
    /\ \A i \in 1..Len(history) :
          /\ 0 <= history[i][1]
          /\ history[i][1] <= history[i][2]
    /\ (history # <<>> /\ pc # "panic") =>
          LET last == history[Len(history)]
          IN  IF NumCells(config) = 0
              THEN last = Zero
              ELSE last[1] * NumCells(config) = BelowThreshold * last[2]

\* a round in which an agent predicted exactly 0.6 and did not attend
C3_Witness ==
    /\ history # <<>>
    /\ \E k \in CellsNow : grid[k].last_prediction = Some(Rat(3, 5))
    /\ history[Len(history)] = Zero

\* C4: the history is append-only and its length is the number of rounds
\* executed since construction: a step leaves it alone or appends one entry,
\* and adaptation (set_grid) neither removes nor adds entries.
C4_HistoryLength == Len(history) = RoundsExecuted

C4_HistoryAppendOnly ==
    [][ /\ Len(history') <= Len(history) + 1
        /\ SubSeq(history', 1, Len(history)) = history
        /\ (pc \in {"adapt", "frame"} => history' = history) ]_vars

C4_History == []C4_HistoryLength /\ C4_HistoryAppendOnly

\* the second iteration has committed its adaptation with rounds in both
C4_Witness ==
    /\ pc = "frame"
    /\ iteration = 1
    /\ config.rounds_per_update = MaxRounds
    /\ NumCells(config) > 1
    /\ Len(history) = 2 * MaxRounds

\* C5: every agent's record is empty right after adapt_strategies, has
\* rounds_per_update entries when the next adaptation runs, and between
\* adaptations has as many entries as rounds were run since the last one.
C5_RecordLength ==
    \A k \in CellsNow :
        LET n == Len(grid[k].performance_history)
        IN  /\ pc \in {"frame", "main", "done"} => n = 0
            /\ pc \in {"rounds", "predict"} => n = round
            /\ pc = "adapt" => n = config.rounds_per_update

\* the adaptation of the second iteration has processed every cell; some
\* agent was kept and some changed in this pass
C5_Witness ==
    /\ pc = "adapt"
    /\ iteration = 1
    /\ config.rounds_per_update = MaxRounds
    /\ cell = NumCells(config)
    /\ \E a, b \in CellsNow :
          /\ PolicyOf(new_grid, a) = PolicyOf(grid, a)
          /\ PolicyOf(new_grid, b) # PolicyOf(grid, b)

\* the policy-id grid a Frame reports for the grid g
PolicyIds(g) ==
    [k \in DOMAIN g |->
        StrategyIdOf(config.initial_strategies, config.initial_strategies[PolicyOf(g, k)])]

\* C6: with policy_retention_rate = 1.0 no step changes the policy of a
\* cell, and the Frame a step emits reports the policy ids of that unchanged
\* grid: every Frame's policy_ids is the policy-id grid of the initial state.
C6_RetentionKeepsPolicies ==
    [][ config.policy_retention_rate = One =>
          /\ \A k \in CellsNow : PolicyOf(grid', k) = PolicyOf(grid, k)
          /\ (num_frames' # num_frames => frame'[1].policy_ids = PolicyIds(grid)) ]_vars

\* with retention 1.0 the second Frame is out, for a grid of two policies
\* whose agents are neighbors and were scored
C6_Witness ==
    /\ config.policy_retention_rate = One
    /\ num_frames = 2
    /\ config.neighbor_distance = 1
    /\ config.rounds_per_update > 0
    /\ \E a, b \in CellsNow : PolicyOf(grid, a) # PolicyOf(grid, b)

\* |p - a| written out by cases
ErrorOf(p, a) == IF RLt(p, a) THEN RSub(a, p) ELSE RSub(p, a)

\* C8: the step that completes a Game.run round appends exactly one entry
\* to every agent's performance record, and the entry is |p - a| for the
\* agent's own prediction p of that round and the ratio a the round pushed;
\* no other step of a round touches a record.
C8_RoundScoresEveryAgent ==
    [][ /\ history' # history =>
             \A k \in CellsNow :
                 grid'[k].performance_history =
                     Append(grid[k].performance_history,
                            ErrorOf(predictions[k + 1], history'[Len(history')]))
        /\ (history' = history /\ pc \in {"rounds", "predict"}) =>
             \A k \in CellsNow :
                 grid'[k].performance_history = grid[k].performance_history
      ]_vars

\* a round in which every agent of a grid of several predicted 0.0: the ratio
\* is 1.0 and each agent's new entry is 1.0
C8_Witness ==
    /\ pc = "rounds"
    /\ round > 0
    /\ NumCells(config) > 1
    /\ history[Len(history)] = One
    /\ \A k \in CellsNow :
          /\ grid[k].last_prediction = Some(Zero)
          /\ grid[k].performance_history[Len(grid[k].performance_history)] = One

\* C10: update_performance on an agent without a last prediction panics and
\* appends nothing, and no execution gets there: when the scores of a round
\* are due every agent holds the prediction it made in that round, the
\* program never stops in the panic, and after a scored round every agent
\* has a last prediction.
C10_ScoringNeverPanics ==
    /\ pc # "panic"
    /\ \A k \in CellsNow :
          LET unpredicted == [grid[k] EXCEPT !.last_prediction = None]
          IN  /\ update_performance_panics(unpredicted)
              /\ update_performance(unpredicted, One).performance_history
                    = unpredicted.performance_history
    /\ (pc = "predict" /\ Len(predictions) = NumCells(config)) =>
          \A k \in CellsNow :
              ~update_performance_panics(WithPredictions(grid, predictions)[k])
    /\ (pc = "rounds" /\ round > 0) =>
          \A k \in CellsNow : grid[k].last_prediction # None

\* the first round of the second iteration was scored in a grid of several
\* agents, all carried through the adaptation before it
C10_Witness ==
    /\ pc = "rounds"
    /\ iteration = 1
    /\ round = 1
    /\ NumCells(config) > 1
    /\ \A k \in CellsNow : Len(grid[k].performance_history) = 1

----------------------------------------------------------------------------
(* simulation_logic/agent.rs, tests::test_agent_performance: one agent whose
   last_prediction is set by hand and which is scored against given ratios *)

MaxRecord == 3

\* the predictions the harness stores; a prediction is any f64, and one
\* above 1 makes an error above 1
TestPredictions == {Zero, Rat(3, 2)}

\* the attendance ratios the agent is scored against
TestRatios == {Zero, Rat(1, 5), Rat(7, 10), One}

TestConfig ==
    [grid_size |-> 1, neighbor_distance |-> 0, temperature |-> Zero,
     policy_retention_rate |-> Zero, num_iterations |-> 0,
     rounds_per_update |-> 0,
     initial_strategies |-> <<AlwaysGoName, NeverGoName>>,
     start_random |-> FALSE]

\* let agent = Agent::new(Arc::new(AlwaysGo)) or Agent::new(Arc::new(NeverGo))
InitAgent ==
    /\ config = TestConfig
    /\ \E p \in 1..Len(TestConfig.initial_strategies) :
          grid = [k \in {0} |-> AgentNew(p)]
    /\ history = <<>>
    /\ predictions = <<>>
    /\ new_grid = grid
    /\ cell = 0
    /\ pc = "test"
    /\ iteration = 0
    /\ round = 0
    /\ frame = None
    /\ num_frames = 0
    /\ PolicyIdle

\* agent.last_prediction = Some(p)
TestSetPrediction ==
    /\ pc = "test"
    /\ \E p \in TestPredictions :
          grid' = [grid EXCEPT ![0].last_prediction = Some(p)]
    /\ UNCHANGED <<config, history, predictions, new_grid, cell, pc,
                   iteration, round, frame, num_frames>>
    /\ UNCHANGED policy_vars

\* agent.update_performance(a)
TestUpdatePerformance ==
    /\ pc = "test"
    /\ Len(grid[0].performance_history) < MaxRecord
    /\ \E a \in TestRatios :
          IF update_performance_panics(grid[0])
          THEN /\ pc' = "panic"
               /\ UNCHANGED grid
          ELSE /\ grid' = [grid EXCEPT ![0] = update_performance(grid[0], a)]
               /\ UNCHANGED pc
    /\ UNCHANGED <<config, history, predictions, new_grid, cell,
                   iteration, round, frame, num_frames>>
    /\ UNCHANGED policy_vars

NextAgent ==
    \/ TestSetPrediction
    \/ TestUpdatePerformance

SpecAgent == InitAgent /\ [][NextAgent]_vars

----------------------------------------------------------------------------
(* The legacy program: policy/mod.rs, agent/mod.rs, game/mod.rs and
   simulation.rs. Its history is a Vec<GameResult>; its configuration has
   no retention rate. *)

GoIfLessThanSixtyName == "Go If < 60%"

\* policy/mod.rs, Policy::decide of AlwaysGo, NeverGo and GoIfLessThanSixty
LegacyPolicyDecide(name, hist) ==
    CASE name = AlwaysGoName -> Rat(59, 100)
      [] name = NeverGoName -> Rat(61, 100)
      [] name = GoIfLessThanSixtyName ->
            IF Len(hist) > 0
            THEN LET last_game == hist[Len(hist)]
                 IN  IF last_game.total_agents = 0 THEN Zero
                     ELSE Rat(last_game.total_attendance, last_game.total_agents)
            ELSE Zero

\* agent/mod.rs, Agent::decide: the prediction is stored and compared
legacy_decide(agent, hist) ==
    [agent EXCEPT !.last_prediction =
        Some(LegacyPolicyDecide(PolicyName(agent.current_policy), hist))]

\* agent/mod.rs, Agent::update_performance: nothing happens without a
\* last prediction
legacy_update_performance(agent, actual_attendance_ratio) ==
    IF agent.last_prediction # None
    THEN [agent EXCEPT !.performance_history =
            Append(@, RAbs(RSub(agent.last_prediction[1],
                                actual_attendance_ratio)))]
    ELSE agent

\* the greedy branch: probs is 1.0 at the index chosen among best_indices
\* and 0.0 elsewhere
LegacyGreedyProbabilities(neighbors, r) ==
    LET best_indices == BestIndices(neighbors)
    IN  [i \in 1..Len(neighbors) |->
            IF best_indices # <<>> /\ i = best_indices[(r % Len(best_indices)) + 1]
            THEN One ELSE Zero]

\* cumulative after the first i probabilities
RECURSIVE Cumulative(_, _)
Cumulative(probabilities, i) ==
    IF i = 0 THEN Zero
    ELSE RAdd(Cumulative(probabilities, i - 1), probabilities[i])

\* the selection loop: the first index i with random_value <= cumulative,
\* 0 when the loop ends without one
RouletteIndex(probabilities, random_value) ==
    LET hit == IndexSeq(Len(probabilities),
                        LAMBDA i : RLe(random_value, Cumulative(probabilities, i)))
    IN  IF hit # <<>> THEN hit[1] ELSE 0

\* the index the loop selects. In the softmax branch the probabilities are
\* exp values over their sum (the sum is at least exp(0) = 1, so the
\* equal-probability fallback is never taken): a draw of 0.0 selects the
\* first neighbor, any other draw one of the neighbors of positive weight
LegacySelectedIndex(neighbors, temperature, d) ==
    IF IsGreedy(temperature)
    THEN RouletteIndex(LegacyGreedyProbabilities(neighbors, d[2]), d[1])
    ELSE IF d[1] = Zero THEN 1
    ELSE LET positive == PositiveIndices(neighbors, temperature)
         IN  positive[(d[2] % Len(positive)) + 1]

\* agent/mod.rs, Agent::adapt_strategy; d = <<random_value, r>>
legacy_adapt_strategy(agent, neighbors, temperature, d) ==
    IF neighbors = <<>> THEN agent
    ELSE LET i == LegacySelectedIndex(neighbors, temperature, d)
         IN  IF i = 0 THEN agent
             ELSE [agent EXCEPT !.current_policy = neighbors[i][1].current_policy,
                                !.performance_history = <<>>]

\* simulation.rs: the values of the configuration explored
LegacyStrategyLists ==
    { <<AlwaysGoName, NeverGoName>>,
      <<GoIfLessThanSixtyName, NeverGoName>>,
      <<AlwaysGoName, NeverGoName, GoIfLessThanSixtyName>> }

LegacyConfigs ==
    { c \in [grid_size : GridSizes,
             neighbor_distance : 0..MaxDistance,
             temperature : Temperatures,
             num_iterations : {MaxIterations},
             rounds_per_update : 0..MaxRounds,
             initial_strategies : LegacyStrategyLists,
             start_random : BOOLEAN] :
        c.start_random => Len(c.initial_strategies) = 2 }

\* simulation.rs, Simulation::new: the same two setups as in
\* simulation_logic, then Game::new
LegacyInit ==
    /\ config \in LegacyConfigs
    /\ grid \in InitialGrids(config)
    /\ history = <<>>
    /\ predictions = <<>>
    /\ new_grid = grid
    /\ cell = 0
    /\ pc = "main"
    /\ iteration = 0
    /\ round = 0
    /\ frame = None
    /\ num_frames = 0
    /\ PolicyIdle

\* simulation.rs, Simulation::run: the next call of run_iteration
LegacyStartIteration ==
    /\ pc = "main"
    /\ iteration < config.num_iterations
    /\ pc' = "rounds"
    /\ round' = 0
    /\ UNCHANGED <<config, grid, history, predictions, new_grid, cell,
                   iteration, frame, num_frames>>
    /\ UNCHANGED policy_vars

\* simulation.rs, Simulation::run: the loop is over
LegacyFinish ==
    /\ pc = "main"
    /\ iteration >= config.num_iterations
    /\ pc' = "done"
    /\ UNCHANGED <<config, grid, history, predictions, new_grid, cell,
                   iteration, round, frame, num_frames>>
    /\ UNCHANGED policy_vars

\* game/mod.rs, Game::run: every agent decides on the history, attendance is
\* counted, every agent is scored and the GameResult is pushed
LegacyGameRun ==
    /\ pc = "rounds"
    /\ round < config.rounds_per_update
    /\ LET total_agents == NumCells(config)
           decided == [k \in DOMAIN grid |-> legacy_decide(grid[k], history)]
           attendance == Cardinality({k \in DOMAIN decided :
                             RLt(decided[k].last_prediction[1], Threshold)})
           actual_attendance_ratio ==
               IF total_agents > 0 THEN Rat(attendance, total_agents) ELSE Zero
       IN  /\ grid' = [k \in DOMAIN decided |->
                          legacy_update_performance(decided[k],
                                                    actual_attendance_ratio)]
           /\ history' = Append(history,
                                [total_attendance |-> attendance,
                                 total_agents |-> total_agents])
    /\ round' = round + 1
    /\ UNCHANGED <<config, predictions, new_grid, cell, pc, iteration,
                   frame, num_frames>>
    /\ UNCHANGED policy_vars

\* simulation.rs, adapt_strategies: new_grid = grid.clone()
LegacyAdaptBegin ==
    /\ pc = "rounds"
    /\ round >= config.rounds_per_update
    /\ new_grid' = grid
    /\ cell' = 0
    /\ pc' = "adapt"
    /\ UNCHANGED <<config, grid, history, predictions, iteration, round,
                   frame, num_frames>>
    /\ UNCHANGED policy_vars

\* the cells the scan of the legacy adapt_strategies keeps for cell k of a
\* grid of side gs: the whole grid in row-major order, filtered by Manhattan
\* distance; nd is `neighbor_distance as isize`
FullScan(gs, nd, k) ==
    IndexSeq(gs * gs,
             LAMBDA m : IAbs((k \div gs) - ((m - 1) \div gs))
                        + IAbs((k % gs) - ((m - 1) % gs))
                           <= nd)

\* the scan for a configured distance below 2^63
LegacyNeighborCells(cfg, k) == FullScan(cfg.grid_size, cfg.neighbor_distance, k)

\* the vector `neighbors` of the legacy pass
LegacyNeighbors(cfg, g, k) ==
    LET cs == LegacyNeighborCells(cfg, k)
    IN  [n \in 1..Len(cs) |-> <<g[cs[n] - 1], performance(g[cs[n] - 1])>>]

\* what thread_rng can give rng.gen::<f64>(), a value of [0, 1)
LegacyRandomValues == {Zero, Rat(1, 2)}

\* the values drawn in one legacy adapt_strategy call
LegacyAdaptDraws(neighbors) ==
    { <<u, r>> : u \in LegacyRandomValues,
                 r \in 0..(SelectionChoices(neighbors, config.temperature) - 1) }

\* one pass of the loop body: new_grid[[i, j]].adapt_strategy(&neighbors, temperature)
LegacyAdaptCell ==
    /\ pc = "adapt"
    /\ cell < NumCells(config)
    /\ LET neighbors == LegacyNeighbors(config, grid, cell)
       IN  \E d \in LegacyAdaptDraws(neighbors) :
             new_grid' = [new_grid EXCEPT ![cell] =
                 legacy_adapt_strategy(new_grid[cell], neighbors,
                                       config.temperature, d)]
    /\ cell' = cell + 1
    /\ UNCHANGED <<config, grid, history, predictions, pc, iteration, round,
                   frame, num_frames>>
    /\ UNCHANGED policy_vars

\* the records are cleared and self.game = Game::new(new_grid): the new game
\* starts with an empty history; run_iteration returns
LegacyAdaptCommit ==
    /\ pc = "adapt"
    /\ cell = NumCells(config)
    /\ grid' = [k \in DOMAIN new_grid |-> clear_performance_history(new_grid[k])]
    /\ history' = <<>>
    /\ new_grid' = grid'
    /\ cell' = 0
    /\ iteration' = iteration + 1
    /\ round' = 0
    /\ pc' = "main"
    /\ UNCHANGED <<config, predictions, frame, num_frames>>
    /\ UNCHANGED policy_vars

NextLegacy ==
    \/ LegacyStartIteration
    \/ LegacyFinish
    \/ LegacyGameRun
    \/ LegacyAdaptBegin
    \/ LegacyAdaptCell
    \/ LegacyAdaptCommit

SpecLegacy == LegacyInit /\ [][NextLegacy]_vars

----------------------------------------------------------------------------
\* the configuration has a retention test, which can skip an adaptation
RetentionConfigured == "policy_retention_rate" \in DOMAIN config

\* the neighbor at cell b scored within 1e-6 of the best neighbor of cell a
WithinEpsOfBest(a, b) ==
    \A c \in CellsNow :
        IsNeighborCell(c, a) =>
            \/ RLe(performance(grid[c]), performance(grid[b]))
            \/ AbsBelowEps(RSub(performance(grid[c]), performance(grid[b])))

\* C7: in greedy mode (temperature < 1e-6) an adaptation of a cell that the
\* retention test does not skip leaves the cell with the policy of one of
\* its neighbors whose performance is within 1e-6 of the maximum over the
\* neighbors, whatever was drawn; when one neighbor alone is that close to
\* the maximum, it is that neighbor's policy.
C7_GreedyAdoptsBest ==
    [][ (/\ pc = "adapt"
         /\ cell' = cell + 1
         /\ IsGreedy(config.temperature)
         /\ ~(RetentionConfigured /\ new_grid'[cell] = new_grid[cell]))
        => \E b \in CellsNow :
              /\ IsNeighborCell(b, cell)
              /\ WithinEpsOfBest(cell, b)
              /\ PolicyOf(new_grid', cell) = PolicyOf(grid, b) ]_vars

\* simulation_logic alone: for every cell and every pair of draws that the
\* retention test lets through, the greedy adapt_strategy gives the policy
\* of a neighbor within 1e-6 of the maximum
C7_GreedySelectionLive ==
    (pc = "adapt" /\ IsGreedy(config.temperature)) =>
        \A a \in CellsNow :
            LET neighbors == Neighbors(config, grid, a)
            IN  \A d \in AdaptDraws(neighbors) :
                    ~Retained(d[1], config.policy_retention_rate) =>
                        \E b \in CellsNow :
                            /\ IsNeighborCell(b, a)
                            /\ WithinEpsOfBest(a, b)
                            /\ adapt_strategy(grid[a], neighbors, config.temperature,
                                              config.policy_retention_rate, d).current_policy
                                  = PolicyOf(grid, b)

----------------------------------------------------------------------------
(* Simulation::new as a step of its own: from a configuration to a
   Simulation, or to the panic that ends the program *)

NewMaxGrid == 3
MaxListLen == 3

FullHistoryAverageName == "Full History Average"
DrunkardName == "Drunkard"
StupidNerdName == "Stupid Nerd"

\* the policy lists a Simulation is built from: every list of up to
\* MaxListLen of three policies (the empty list and lists that repeat a
\* policy included), and two longer lists of distinct policies, with and
\* without "Never Go"
NewStrategyLists ==
    UNION { [1..n -> {AlwaysGoName, NeverGoName, YesterdayName}] : n \in 0..MaxListLen }
    \cup { <<AlwaysGoName, YesterdayName, NeverGoName, RandomName,
             FullHistoryAverageName>>,
           <<AlwaysGoName, YesterdayName, RandomName, FullHistoryAverageName,
             DrunkardName, StupidNerdName>> }

\* the configurations Simulation::new is called with; the random setup is
\* explored for lists of at most two policies and grids of at most 2 x 2
NewConfigs ==
    { c \in [grid_size : 0..NewMaxGrid,
             neighbor_distance : {0},
             temperature : {Zero},
             policy_retention_rate : {Zero},
             num_iterations : {0},
             rounds_per_update : {0},
             initial_strategies : NewStrategyLists,
             start_random : BOOLEAN] :
        c.start_random => (Len(c.initial_strategies) <= 2 /\ c.grid_size <= 2) }

\* before Simulation::new: there is a configuration and nothing else
InitNew ==
    /\ config \in NewConfigs
    /\ grid = <<>>
    /\ history = <<>>
    /\ predictions = <<>>
    /\ new_grid = <<>>
    /\ cell = 0
    /\ pc = "new"
    /\ iteration = 0
    /\ round = 0
    /\ frame = None
    /\ num_frames = 0
    /\ PolicyIdle

\* a constructor that checks the list in the random setup alone
new_panics_random_only(cfg) == cfg.start_random /\ cfg.initial_strategies = <<>>

\* simulation_logic, Simulation::new: the panic on an empty policy list, the
\* first thing the constructor does
new_panics(cfg) == cfg.initial_strategies = <<>>

\* legacy Simulation::new: with an empty list the random setup panics on
\* initial_strategies[0] while the placeholder agent is built, the corner
\* setup in the closure that looks for a base policy
legacy_new_panics(cfg) ==
    \/ cfg.start_random /\ Len(cfg.initial_strategies) < 1
    \/ ~cfg.start_random /\ BasePolicy(cfg.initial_strategies) > Len(cfg.initial_strategies)

\* simulation_logic, Simulation::new
SimulationNew ==
    /\ pc = "new"
    /\ IF new_panics(config)
       THEN /\ pc' = "new_panic"
            /\ UNCHANGED <<grid, new_grid>>
       ELSE /\ grid' \in InitialGrids(config)
            /\ new_grid' = grid'
            /\ pc' = "main"
    /\ UNCHANGED <<config, history, predictions, cell, iteration, round,
                   frame, num_frames>>
    /\ UNCHANGED policy_vars

\* legacy Simulation::new
LegacySimulationNew ==
    /\ pc = "new"
    /\ IF legacy_new_panics(config)
       THEN /\ pc' = "new_panic"
            /\ UNCHANGED <<grid, new_grid>>
       ELSE /\ grid' \in InitialGrids(config)
            /\ new_grid' = grid'
            /\ pc' = "main"
    /\ UNCHANGED <<config, history, predictions, cell, iteration, round,
                   frame, num_frames>>
    /\ UNCHANGED policy_vars

NextNew ==
    \/ SimulationNew
    \/ LegacySimulationNew

SpecNew == InitNew /\ [][NextNew]_vars

\* C11: with an empty policy list Simulation::new ends in its panic, in the
\* random and in the corner setup alike; no grid and no Game (no history)
\* is ever built for it, and a constructed Simulation has a policy.
C11_EmptyPolicyListIsFatal ==
    /\ config.initial_strategies = <<>> =>
          /\ pc \in {"new", "new_panic"}
          /\ grid = <<>>
          /\ new_grid = <<>>
          /\ history = <<>>
    /\ pc = "new_panic" => config.initial_strategies = <<>>

\* the constructor has panicked on the empty list in the corner setup of a
\* grid that has cells
C11_Witness ==
    /\ pc = "new_panic"
    /\ ~config.start_random
    /\ config.grid_size > 1

----------------------------------------------------------------------------
\* the names of the configured policies are pairwise distinct
DistinctNames ==
    \A i, j \in 1..Len(config.initial_strategies) :
        config.initial_strategies[i] = config.initial_strategies[j] => i = j

\* C12: in every Frame run_iteration returns, policy_ids[cell] is the
\* (0-based) index in initial_strategies of the policy the cell holds after
\* the adaptation, for every list of pairwise distinct names, of any length.
C12_PolicyIdIsListIndex ==
    (pc = "main" /\ frame # None /\ DistinctNames) =>
        \A k \in CellsNow : frame[1].policy_ids[k] = PolicyOf(grid, k) - 1

\* the same for the lists that have no more policies than StrategyId has
\* values
C12_PolicyIdIsListIndexShort ==
    (pc = "main" /\ frame # None /\ DistinctNames
       /\ Len(config.initial_strategies) <= NumStrategyIds) =>
        \A k \in CellsNow : frame[1].policy_ids[k] = PolicyOf(grid, k) - 1

----------------------------------------------------------------------------
\* C13: the Frame run_iteration returns reports the ratio of the last round
\* of that iteration (the last history entry, which that round pushed), and
\* 0.0 when the history is empty, which is the case only when no round was
\* ever run; predictions[cell] is the cell's last prediction, and 0.0 for a
\* cell that never predicted, which again means no round was ever run; both
\* grids have one entry per cell of the grid_size x grid_size grid.
C13_FrameContents ==
    (pc = "main" /\ frame # None) =>
        LET f == frame[1]
        IN  /\ config.rounds_per_update > 0 =>
                  /\ Len(history) = iteration * config.rounds_per_update
                  /\ f.attendance_ratio = history[Len(history)]
            /\ config.rounds_per_update = 0 =>
                  /\ history = <<>>
                  /\ f.attendance_ratio = Zero
            /\ \A k \in CellsNow :
                  IF config.rounds_per_update > 0
                  THEN /\ grid[k].last_prediction # None
                       /\ f.predictions[k] = grid[k].last_prediction[1]
                  ELSE /\ grid[k].last_prediction = None
                       /\ f.predictions[k] = Zero
            /\ DOMAIN f.policy_ids = 0..(config.grid_size * config.grid_size - 1)
            /\ DOMAIN f.predictions = 0..(config.grid_size * config.grid_size - 1)

\* the Frame of the second iteration of a grid of four agents, whose last
\* round ended with another ratio than the first round ever run and left a
\* prediction that is not 0.0
C13_Witness ==
    /\ pc = "main"
    /\ num_frames = 2
    /\ config.grid_size = 2
    /\ history # <<>>
    /\ history[1] # history[Len(history)]
    /\ frame[1].attendance_ratio = history[Len(history)]
    /\ \E k \in CellsNow : frame[1].predictions[k] # Zero

----------------------------------------------------------------------------
(* simulation_logic/policy.rs: the catalogue of policies, each instance a
   record of the struct's name and its parameters *)

MaxWindow == 2
MaxHistory == 3

RECURSIVE ISqrtIn(_, _, _)
\* the largest k of lo..hi with k * k <= x (lo * lo <= x)
ISqrtIn(x, lo, hi) ==
    IF lo >= hi THEN lo
    ELSE LET mid == (lo + hi + 1) \div 2
         IN  IF mid * mid <= x THEN ISqrtIn(x, mid, hi)
             ELSE ISqrtIn(x, lo, mid - 1)

\* f64::sqrt, to three decimals (exact on the squares of such values)
SqrtScale == 1000
RSqrt(a) ==
    Rat(ISqrtIn(a[1] * a[2] * SqrtScale * SqrtScale, 0, 46340), a[2] * SqrtScale)

\* f64::clamp(0.0, 1.0)
Clamp01(a) == IF RLt(a, Zero) THEN Zero ELSE IF RLt(One, a) THEN One ELSE a

\* the entries of s in reverse order: iter().rev()
Reverse(s) == [i \in 1..Len(s) |-> s[Len(s) + 1 - i]]

\* history.iter().sum::<f64>() / history.len() as f64, 0.0 for no history
Average(hist) ==
    IF hist = <<>> THEN Zero ELSE RDivInt(RSum(hist), Len(hist))

\* PredictFromDayBeforeYesterday::decide
DayBeforeYesterdayDecide(hist) ==
    IF Len(hist) >= 2 THEN hist[Len(hist) - 1]
    ELSE IF Len(hist) = 1 THEN hist[1]
    ELSE Zero

\* EvenHistoryAveragePolicy::decide: the entries at the even (0-based) days
EvenHistoryAverageDecide(hist) ==
    LET even_day_history ==
            [i \in 1..((Len(hist) + 1) \div 2) |-> hist[2 * i - 1]]
    IN  IF even_day_history = <<>> THEN Zero
        ELSE RDivInt(RSum(even_day_history), Len(even_day_history))

\* ComplexFormulaPolicy::decide
ComplexFormulaDecide(hist) ==
    IF Len(hist) < 3 THEN Zero
    ELSE LET b_n == hist[Len(hist)]
             b_n_minus_1 == hist[Len(hist) - 1]
             b_n_minus_2 == hist[Len(hist) - 2]
             half == Rat(1, 2)
         IN  RMul(half,
                  RAdd(RSqrt(RMul(half, RAdd(RMul(b_n, b_n),
                                             RMul(b_n_minus_1, b_n_minus_1)))),
                       b_n_minus_2))

\* DrunkardPolicy::decide
DrunkardDecide(hist) == Clamp01(RSub(Average(hist), Rat(5, 100)))

\* StupidNerdPolicy::decide
StupidNerdDecide(hist) == Clamp01(RAdd(Average(hist), Rat(5, 100)))

\* the sum over history.iter().rev().zip(weights.iter()) of b * w
RECURSIVE WeightedSum(_, _)
WeightedSum(reversed, ws) ==
    IF reversed = <<>> \/ ws = <<>> THEN Zero
    ELSE RAdd(RMul(reversed[1], ws[1]), WeightedSum(Tail(reversed), Tail(ws)))

\* WeightedHistoryPolicy::decide once the cache ws has been grown
WeightedHistoryCompute(hist, ws) ==
    IF hist = <<>> THEN Zero
    ELSE RDivInt(WeightedSum(Reverse(hist), ws), Len(hist))

\* SlidingWeightedAveragePolicy::decide
SlidingWeightedAverageDecide(fixed_weights, hist) ==
    IF hist = <<>> THEN Zero
    ELSE LET window == SubSeq(hist, SaturatingSub(Len(hist), 5) + 1, Len(hist))
             weighted_sum == WeightedSum(Reverse(window), fixed_weights)
         IN  IF window = <<>> THEN Zero
             ELSE RDivInt(weighted_sum, Len(window))

RECURSIVE RPowInt(_, _)
\* f64::powi and f64::powf for an exponent 0, 1, 2, ..
RPowInt(a, k) == IF k = 0 THEN One ELSE RMul(a, RPowInt(a, k - 1))

\* a / b for b # 0
RDiv(a, b) ==
    IF b[1] < 0 THEN Rat(-(a[1] * b[2]), a[2] * (-b[1]))
    ELSE Rat(a[1] * b[2], a[2] * b[1])

\* ExponentialMovingAveragePolicy::decide
ExponentialMovingAverageDecide(alpha, hist) ==
    IF hist = <<>> THEN Zero
    ELSE LET n == Len(hist) - 1
             reversed == Reverse(hist)
             weighted_sum ==
                 RSum([k \in 1..Len(hist) |-> RMul(reversed[k], RPowInt(alpha, k - 1))])
             normalization ==
                 IF alpha = One THEN Rat(n + 1, 1)
                 ELSE RDiv(RSub(One, RPowInt(alpha, n + 1)), RSub(One, alpha))
         IN  RDiv(weighted_sum, normalization)

\* x.powf(1.0 / r) for r = 1 (x itself) and r = 2 (the square root)
RRoot(x, r) == IF r = 1 THEN x ELSE RSqrt(x)

\* a mean that divides by M, whatever the window holds
GeneralizedMeanDecideByM(M, r, hist) ==
    IF hist = <<>> THEN Zero
    ELSE LET n == Len(hist)
             window_size == IF n < M THEN n ELSE M
             window == SubSeq(hist, n - window_size + 1, n)
         IN  IF window = <<>> THEN Zero
             ELSE RRoot(RDivInt(RSum([i \in 1..Len(window) |-> RPowInt(window[i], r)]),
                                M), r)

\* GeneralizedMeanPolicy::<M>::decide, for r = 1 and r = 2
GeneralizedMeanDecide(M, r, hist) ==
    IF hist = <<>> THEN Zero
    ELSE LET n == Len(hist)
             window_size == IF n < M THEN n ELSE M
             window == SubSeq(hist, n - window_size + 1, n)
         IN  IF window = <<>> THEN Zero
             ELSE RRoot(RDivInt(RSum([i \in 1..Len(window) |-> RPowInt(window[i], r)]),
                                window_size), r)

----------------------------------------------------------------------------
(* Policy instances called directly: a caller holds one instance, passes it
   the attendance history of the rounds so far and reads the prediction *)

MaxCalls == 2

\* attendance ratios a round can produce
HistoryValues == {Zero, Rat(1, 2), One}

\* samples of Uniform::new(0.0, 2.0)
WeightDraws == {Rat(1, 2), Rat(3, 2)}

\* a policy object: the struct, its const parameter and its fields
PolicyInstance(kind, size, low, high, alpha, r, fixed_weights) ==
    [kind |-> kind, size |-> size, low |-> low, high |-> high,
     alpha |-> alpha, r |-> r, weights |-> fixed_weights]

\* the structs without parameters
PlainKinds ==
    {"AlwaysGo", "NeverGo", "PredictFromYesterday",
     "PredictFromDayBeforeYesterday", "RandomPolicy", "FullHistoryAverage",
     "EvenHistoryAverage", "ComplexFormula", "Drunkard", "StupidNerd",
     "WeightedHistory"}

\* UniformPolicy::new: the assertion on low and high
UniformNewAccepts(low, high) ==
    /\ RLe(low, high)
    /\ RLe(Zero, low) /\ RLe(low, One)
    /\ RLe(Zero, high) /\ RLe(high, One)

\* ExponentialMovingAveragePolicy::new: the assertion on alpha
ExponentialNewAccepts(alpha) == RLt(Zero, alpha) /\ RLt(alpha, One)

\* GeneralizedMeanPolicy::new: the assertion on r
GeneralizedNewAccepts(r) == r # 0

\* the weight arrays SlidingWeightedAveragePolicy::new can draw
SlidingWeights ==
    {[i \in 1..5 |-> Rat(1, 2)], [i \in 1..5 |-> Rat(3, 2)],
     [i \in 1..5 |-> IF i = 1 THEN Rat(3, 2) ELSE Rat(1, 2)],
     [i \in 1..5 |-> IF i = 1 THEN Rat(1, 2) ELSE Rat(3, 2)]}

\* every instance a constructor returns
PolicyInstances ==
    {PolicyInstance(k, 0, Zero, Zero, Zero, 0, <<>>) : k \in PlainKinds}
    \cup {PolicyInstance("MovingAverage", w, Zero, Zero, Zero, 0, <<>>) :
             w \in 0..MaxWindow}
    \cup {PolicyInstance("Uniform", 0, b[1], b[2], Zero, 0, <<>>) :
             b \in {c \in {Zero, Rat(1, 2), One, Rat(3, 2)}
                             \X {Zero, Rat(1, 2), One, Rat(3, 2)} :
                       UniformNewAccepts(c[1], c[2])}}
    \cup {PolicyInstance("SlidingWeightedAverage", 0, Zero, Zero, Zero, 0, ws) :
             ws \in SlidingWeights}
    \cup {PolicyInstance("ExponentialMovingAverage", 0, Zero, Zero, a, 0, <<>>) :
             a \in {c \in {Zero, Rat(1, 2), One} : ExponentialNewAccepts(c)}}
    \cup {PolicyInstance("GeneralizedMean", c[1], Zero, Zero, Zero, c[2], <<>>) :
             c \in (0..MaxWindow) \X {q \in 0..2 : GeneralizedNewAccepts(q)}}

\* Uniform::new(low, high) of rand 0.8 panics unless low < high
UniformDistNewPanics(low, high) == ~RLt(low, high)

\* whether p.decide(..) panics
DecidePanics(p) ==
    p.kind = "Uniform" /\ UniformDistNewPanics(p.low, p.high)

\* the values thread_rng can give p in one decide call
InstanceDraws(p) ==
    CASE p.kind = "RandomPolicy" -> RandomDraws
      [] p.kind = "Uniform" ->
            {p.low, RDivInt(RAdd(p.low, p.high), 2)}
      [] OTHER -> {Zero}

\* the weights a decide call of p pushes onto the cache ws
FreshWeights(p, hist, ws) ==
    IF p.kind = "WeightedHistory" /\ hist # <<>> /\ Len(ws) < Len(hist)
    THEN LET additional_weights_to_generate == Len(hist) - Len(ws)
         IN  [1..additional_weights_to_generate -> WeightDraws]
    ELSE {<<>>}

\* p.decide(hist), ws being the cache after the call's pushes
InstanceDecide(p, hist, ws, rnd) ==
    CASE p.kind = "AlwaysGo" -> PolicyDecide(AlwaysGoName, hist, rnd)
      [] p.kind = "NeverGo" -> PolicyDecide(NeverGoName, hist, rnd)
      [] p.kind = "PredictFromYesterday" -> PolicyDecide(YesterdayName, hist, rnd)
      [] p.kind = "PredictFromDayBeforeYesterday" -> DayBeforeYesterdayDecide(hist)
      [] p.kind = "RandomPolicy" -> PolicyDecide(RandomName, hist, rnd)
      [] p.kind = "MovingAverage" -> MovingAverageDecide(p.size, hist)
      [] p.kind = "FullHistoryAverage" -> Average(hist)
      [] p.kind = "EvenHistoryAverage" -> EvenHistoryAverageDecide(hist)
      [] p.kind = "ComplexFormula" -> ComplexFormulaDecide(hist)
      [] p.kind = "Drunkard" -> DrunkardDecide(hist)
      [] p.kind = "StupidNerd" -> StupidNerdDecide(hist)
      [] p.kind = "Uniform" -> rnd
      [] p.kind = "WeightedHistory" -> WeightedHistoryCompute(hist, ws)
      [] p.kind = "SlidingWeightedAverage" ->
            SlidingWeightedAverageDecide(p.weights, hist)
      [] p.kind = "ExponentialMovingAverage" ->
            ExponentialMovingAverageDecide(p.alpha, hist)
      [] p.kind = "GeneralizedMean" -> GeneralizedMeanDecide(p.size, p.r, hist)

\* a caller constructs one instance; no round has been played
InitPolicy ==
    /\ config = TestConfig
    /\ grid = <<>>
    /\ history = <<>>
    /\ predictions = <<>>
    /\ new_grid = <<>>
    /\ cell = 0
    /\ pc = "policy"
    /\ iteration = 0
    /\ round = 0
    /\ frame = None
    /\ num_frames = 0
    /\ instance \in {Some(p) : p \in PolicyInstances}
    /\ weights = <<>>
    /\ lock = None
    /\ calls = <<>>

\* a round ends and its attendance ratio joins the history
PolicyObserve ==
    /\ pc = "policy"
    /\ Len(history) < MaxHistory
    /\ \E ratio \in HistoryValues : history' = Append(history, ratio)
    /\ UNCHANGED <<config, grid, predictions, new_grid, cell, pc, iteration,
                   round, frame, num_frames, instance, weights, lock, calls>>

\* instance.decide(&history)
PolicyDecideCall ==
    /\ pc = "policy"
    /\ Len(calls) < MaxCalls
    /\ LET p == instance[1]
       IN  IF DecidePanics(p)
           THEN /\ pc' = "policy_panic"
                /\ UNCHANGED <<weights, calls>>
           ELSE /\ pc' = pc
                /\ \E fresh \in FreshWeights(p, history, weights),
                      rnd \in InstanceDraws(p) :
                      /\ weights' = weights \o fresh
                      /\ calls' = Append(calls,
                            [history |-> history,
                             value |-> InstanceDecide(p, history, weights', rnd)])
    /\ UNCHANGED <<config, grid, history, predictions, new_grid, cell,
                   iteration, round, frame, num_frames, instance, lock>>

NextPolicy == PolicyObserve \/ PolicyDecideCall

SpecPolicy == InitPolicy /\ [][NextPolicy]_vars

\* C14: Policy.decide never fails, for every instance a constructor accepts
\* and every history (a UniformPolicy with low = high included)
C14_DecideNeverFails == pc # "policy_panic"

\* a <= v <= b
InRange(v, a, b) == RLe(a, v) /\ RLe(v, b)

\* C15: on a history with entries in [0,1] every policy of the catalogue,
\* WeightedHistory and SlidingWeightedAverage included, predicts a value in
\* [0,1]
C15_PredictionInUnitRange ==
    \A i \in 1..Len(calls) : InRange(calls[i].value, Zero, One)

\* the policies other than the two weighted ones predict within [0,1], the two
\* weighted ones below 2
C15_PredictionInDocumentedRange ==
    \A i \in 1..Len(calls) :
        IF instance[1].kind \in {"WeightedHistory", "SlidingWeightedAverage"}
        THEN RLe(Zero, calls[i].value) /\ RLt(calls[i].value, Rat(2, 1))
        ELSE InRange(calls[i].value, Zero, One)

\* C16: GeneralizedMeanPolicy<M> with r = 1 returns what MovingAveragePolicy<M>
\* returns, for every M (0 included) and every history (empty or shorter than
\* M included)
C16_GeneralizedMeanOneIsMovingAverage ==
    (instance # None /\ instance[1].kind = "GeneralizedMean" /\ instance[1].r = 1)
        => \A i \in 1..Len(calls) :
               calls[i].value = MovingAverageDecide(instance[1].size, calls[i].history)

\* a GeneralizedMean<2>(1) answered on a history of one entry and on a longer
\* one, not with 0.0
C16_Witness ==
    /\ instance # None
    /\ instance[1].kind = "GeneralizedMean" /\ instance[1].r = 1
    /\ instance[1].size = 2
    /\ Len(calls) = 2
    /\ Len(calls[1].history) = 1 /\ calls[1].value # Zero
    /\ Len(calls[2].history) = 3 /\ calls[2].value # Zero
    /\ calls[2].value # calls[2].history[3]

----------------------------------------------------------------------------
\* C17: when adapt_strategies is entered in softmax mode (temperature not
\* below 1e-6), for every cell an adaptation that the retention test does
\* not skip has an outcome for every draw, and the agent
\* then holds the policy of a member of its neighbor list; this covers the
\* case where WeightedIndex::new finds no valid distribution and the index
\* is drawn uniformly over the neighbors
C17_SoftmaxAdoptsNeighborPolicy ==
    (pc = "adapt" /\ cell = 0 /\ ~IsGreedy(config.temperature)) =>
        \A a \in CellsNow :
            LET neighbors == Neighbors(config, grid, a)
            IN  /\ AdaptDraws(neighbors) # {}
                /\ \A d \in AdaptDraws(neighbors) :
                      (neighbors # <<>> /\ ~Retained(d[1], config.policy_retention_rate)) =>
                          \E n \in 1..Len(neighbors) :
                              adapt_strategy(grid[a], neighbors, config.temperature,
                                             config.policy_retention_rate, d).current_policy
                                 = neighbors[n][1].current_policy

\* the pass of a configuration without a valid distribution has given cell 0
\* the policy of another cell
C17_Witness ==
    /\ pc = "adapt"
    /\ config.temperature = NaN
    /\ PositiveIndices(Neighbors(config, grid, 0), config.temperature) = <<>>
    /\ cell >= 1
    /\ PolicyOf(new_grid, 0) # PolicyOf(grid, 0)

----------------------------------------------------------------------------
\* C19: for every cell of the grid adapt_strategies is entered with and every
\* draw: when adapt_strategy has selected a replacement (the neighbor list is
\* not empty and the retention test did not skip the call), the agent's
\* performance record is empty on return, whichever neighbor was chosen
C19_RecordEmptyAfterSelection ==
    (pc = "adapt" /\ cell = 0) =>
        \A a \in CellsNow :
            LET neighbors == Neighbors(config, grid, a)
            IN  \A d \in AdaptDraws(neighbors) :
                    (neighbors # <<>> /\ ~Retained(d[1], config.policy_retention_rate)) =>
                        adapt_strategy(grid[a], neighbors, config.temperature,
                                       config.policy_retention_rate, d).performance_history
                           = <<>>

\* C19, for simulation_logic: after such a selection the record is empty when
\* the agent now holds a policy of another name, and is the record it had
\* when the policy selected has the name of the one it held
C19_RecordEmptyAfterPolicyChange ==
    (pc = "adapt" /\ cell = 0) =>
        \A a \in CellsNow :
            LET neighbors == Neighbors(config, grid, a)
            IN  \A d \in AdaptDraws(neighbors) :
                    (neighbors # <<>> /\ ~Retained(d[1], config.policy_retention_rate)) =>
                        LET after == adapt_strategy(grid[a], neighbors, config.temperature,
                                                    config.policy_retention_rate, d)
                        IN  IF PolicyName(after.current_policy)
                                  # PolicyName(grid[a].current_policy)
                            THEN after.performance_history = <<>>
                            ELSE after.performance_history = grid[a].performance_history

\* the pass has given cell 0, which had scores on record, the policy of
\* another name and an empty record
C19_Witness ==
    /\ pc = "adapt"
    /\ cell >= 1
    /\ grid[0].performance_history # <<>>
    /\ PolicyOf(new_grid, 0) # PolicyOf(grid, 0)
    /\ new_grid[0].performance_history = <<>>

----------------------------------------------------------------------------
\* the configured position of the base policy: the first policy named
\* "Never Go" if there is one, the first policy otherwise
IsBasePosition(b) ==
    LET names == config.initial_strategies
    IN  IF \E i \in 1..Len(names) : names[i] = NeverGoName
        THEN names[b] = NeverGoName /\ \A j \in 1..(b - 1) : names[j] # NeverGoName
        ELSE b = 1

\* the configured positions of the policies whose name is not the base's
NonBasePositions(b) ==
    {i \in 1..Len(config.initial_strategies) :
        config.initial_strategies[i] # config.initial_strategies[b]}

\* o_n: the position with exactly n non-base positions before it
NthNonBase(b, n) ==
    CHOOSE i \in NonBasePositions(b) :
        Cardinality({j \in NonBasePositions(b) : j < i}) = n

\* C18: with start_random = false, Simulation::new gives a grid of fresh
\* agents in which, for grid_size g >= 2 and k >= 1 configured policies
\* o_0..o_(k-1) not named like the base policy, the corners (0,0), (0,g-1),
\* (g-1,0), (g-1,g-1) hold o_(0 mod k), o_(1 mod k), o_(2 mod k), o_(3 mod k)
\* and every other cell holds the base policy; with k >= 4 the four corner
\* policies are four different entries of the list (of four different names
\* when the names of the list are distinct); with k = 0 every cell holds the
\* base policy; a grid with g < 2 is constructed as well (one cell holding
\* o_0, or the base policy when k = 0; no cell for g = 0), and the only
\* construction that fails is that of an empty policy list.
C18_CornerSetup ==
    /\ pc = "new_panic" => config.initial_strategies = <<>>
    /\ (pc = "main" /\ ~config.start_random) =>
          \E b \in 1..Len(config.initial_strategies) :
              /\ IsBasePosition(b)
              /\ LET g == config.grid_size
                     k == Cardinality(NonBasePositions(b))
                     corners == <<CellAt(config, 0, 0), CellAt(config, 0, g - 1),
                                  CellAt(config, g - 1, 0), CellAt(config, g - 1, g - 1)>>
                 IN  /\ DOMAIN grid = 0..(g * g - 1)
                     /\ \A c \in DOMAIN grid : grid[c] = AgentNew(PolicyOf(grid, c))
                     /\ (g >= 2 /\ k >= 1) =>
                           /\ \A n \in 1..4 :
                                 PolicyOf(grid, corners[n]) = NthNonBase(b, (n - 1) % k)
                           /\ \A c \in DOMAIN grid :
                                 (\A n \in 1..4 : c # corners[n]) => PolicyOf(grid, c) = b
                     /\ (g >= 2 /\ k >= 4) =>
                           \A m, n \in 1..4 :
                               m # n =>
                                   /\ PolicyOf(grid, corners[m]) # PolicyOf(grid, corners[n])
                                   /\ DistinctNames =>
                                         PolicyName(PolicyOf(grid, corners[m]))
                                            # PolicyName(PolicyOf(grid, corners[n]))
                     /\ k = 0 => \A c \in DOMAIN grid : PolicyOf(grid, c) = b
                     /\ (g = 1 /\ k >= 1) => PolicyOf(grid, 0) = NthNonBase(b, 0)

\* a grid of nine cells built from six policies, none named "Never Go"
C18_Witness ==
    /\ pc = "main"
    /\ ~config.start_random
    /\ config.grid_size = 3
    /\ Len(config.initial_strategies) = 6
    /\ PolicyOf(grid, 8) = 5
    /\ PolicyOf(grid, 4) = 1

----------------------------------------------------------------------------
(* One WeightedHistoryPolicy instance shared by several callers (agents hold
   it through an Arc; Policy is Send + Sync). Each caller runs decide step by
   step: the empty-history return, weights.lock(), one push per missing
   weight, then the sum and the return that drops the guard. *)

Threads == {1, 2}
MaxSharedHistory == 2

\* a prepending push
PushWeightFront(ws, w) == <<w>> \o ws

\* weights.push(w)
PushWeight(ws, w) == Append(ws, w)

\* a caller outside decide, having returned the results in `returned`
CallerIdle(count, returned) ==
    [pc |-> "idle", history |-> <<>>, todo |-> 0, count |-> count,
     returned |-> returned]

\* what a return leaves on record: the argument, the value and the length of
\* the cache the value was computed with
Returned(hist, value, cached) ==
    [history |-> hist, value |-> value, cached |-> cached]

InitWeighted ==
    /\ config = TestConfig
    /\ grid = <<>>
    /\ history = <<>>
    /\ predictions = <<>>
    /\ new_grid = <<>>
    /\ cell = 0
    /\ pc = "shared"
    /\ iteration = 0
    /\ round = 0
    /\ frame = None
    /\ num_frames = 0
    /\ instance = Some(PolicyInstance("WeightedHistory", 0, Zero, Zero, Zero, 0, <<>>))
    /\ weights = <<>>
    /\ lock = None
    /\ calls = [t \in Threads |-> CallerIdle(0, {})]

\* a round ends and its attendance ratio joins the history
WeightedObserve ==
    /\ pc = "shared"
    /\ Len(history) < MaxSharedHistory
    /\ \E ratio \in {Rat(1, 2), One} : history' = Append(history, ratio)
    /\ UNCHANGED <<config, grid, predictions, new_grid, cell, pc, iteration,
                   round, frame, num_frames, instance, weights, lock, calls>>

\* caller t enters decide(&history): an empty history returns 0.0 at once
WeightedCall(t) ==
    /\ pc = "shared"
    /\ calls[t].pc = "idle"
    /\ calls[t].count < MaxCalls
    /\ calls' = [calls EXCEPT ![t] =
          IF history = <<>>
          THEN CallerIdle(@.count + 1, @.returned \cup {Returned(history, Zero, 0)})
          ELSE [@ EXCEPT !.pc = "lock", !.history = history]]
    /\ UNCHANGED <<config, grid, history, predictions, new_grid, cell, pc,
                   iteration, round, frame, num_frames, instance, weights, lock>>

\* self.weights.lock().unwrap() returns, and the number of weights to
\* generate is computed
WeightedLock(t) ==
    /\ calls[t].pc = "lock"
    /\ lock = None
    /\ lock' = Some(t)
    /\ calls' = [calls EXCEPT ![t] =
          [@ EXCEPT !.pc = "push",
                    !.todo = IF Len(weights) < Len(calls[t].history)
                             THEN Len(calls[t].history) - Len(weights)
                             ELSE 0]]
    /\ UNCHANGED <<config, grid, history, predictions, new_grid, cell, pc,
                   iteration, round, frame, num_frames, instance, weights>>

\* one pass of the loop: weights.push(self.dist.sample(&mut rng))
WeightedPush(t) ==
    /\ calls[t].pc = "push"
    /\ calls[t].todo > 0
    /\ \E w \in WeightDraws : weights' = PushWeight(weights, w)
    /\ calls' = [calls EXCEPT ![t].todo = @ - 1]
    /\ UNCHANGED <<config, grid, history, predictions, new_grid, cell, pc,
                   iteration, round, frame, num_frames, instance, lock>>

\* the weighted sum over the history, the division and the return, which
\* drops the guard
WeightedReturn(t) ==
    /\ calls[t].pc = "push"
    /\ calls[t].todo = 0
    /\ calls' = [calls EXCEPT ![t] =
          CallerIdle(@.count + 1,
                     @.returned \cup
                        {Returned(@.history,
                                  WeightedHistoryCompute(@.history, weights),
                                  Len(weights))})]
    /\ lock' = None
    /\ UNCHANGED <<config, grid, history, predictions, new_grid, cell, pc,
                   iteration, round, frame, num_frames, instance, weights>>

NextWeighted ==
    \/ WeightedObserve
    \/ \E t \in Threads : WeightedCall(t)
    \/ \E t \in Threads : WeightedLock(t)
    \/ \E t \in Threads : WeightedPush(t)
    \/ \E t \in Threads : WeightedReturn(t)

SpecWeighted == InitWeighted /\ [][NextWeighted]_vars

\* s is an initial segment of t
IsPrefix(s, t) == Len(s) <= Len(t) /\ SubSeq(t, 1, Len(s)) = s

\* the results returned so far, by any caller
AllReturned == UNION {calls[t].returned : t \in Threads}

\* C20: for a WeightedHistory instance shared by several callers, under every
\* interleaving of their decide calls: the cache changes only by appending
\* (a cached weight is generated once and stays), a caller computes its sum
\* holding the lock with at least len(history) weights cached, and two calls
\* with the same history return the same value.
C20_SharedCacheConsistent ==
    /\ [][IsPrefix(weights, weights')]_vars
    /\ [](\A t \in Threads :
             (calls[t].pc = "push" /\ calls[t].todo = 0) =>
                 /\ lock = Some(t)
                 /\ Len(weights) >= Len(calls[t].history))
    /\ [](\A r1, r2 \in AllReturned :
             /\ r1.cached >= Len(r1.history)
             /\ r1.history = r2.history => r1.value = r2.value)

\* both callers have returned a value for the same history of one round,
\* one of them after the other had grown the cache, and a caller has
\* returned two values
C20_Witness ==
    /\ pc = "shared"
    /\ Len(weights) >= 2
    /\ \E r1 \in calls[1].returned, r2 \in calls[2].returned :
          /\ r1.history = r2.history
          /\ Len(r1.history) = 1
          /\ r1.cached # r2.cached
          /\ r1.value # Zero
    /\ \E t \in Threads : Cardinality(calls[t].returned) >= 2

----------------------------------------------------------------------------
(* agent/mod.rs: one legacy Agent driven by hand, with decide and
   update_performance called in any order *)

\* Agent::new((0, 0), Box::new(AlwaysGo)) or Box::new(NeverGo)
InitLegacyAgent ==
    /\ config = TestConfig
    /\ \E p \in 1..Len(TestConfig.initial_strategies) :
          grid = [k \in {0} |-> AgentNew(p)]
    /\ history = <<>>
    /\ predictions = <<>>
    /\ new_grid = grid
    /\ cell = 0
    /\ pc = "legacy_test"
    /\ iteration = 0
    /\ round = 0
    /\ frame = None
    /\ num_frames = 0
    /\ PolicyIdle

\* agent.decide(&history)
LegacyTestDecide ==
    /\ pc = "legacy_test"
    /\ grid' = [grid EXCEPT ![0] = legacy_decide(grid[0], history)]
    /\ UNCHANGED <<config, history, predictions, new_grid, cell, pc,
                   iteration, round, frame, num_frames>>
    /\ UNCHANGED policy_vars

\* agent.update_performance(a), the round-th call; the function has no
\* panicking path
LegacyTestUpdatePerformance ==
    /\ pc = "legacy_test"
    /\ round < MaxRecord
    /\ \E a \in TestRatios :
          grid' = [grid EXCEPT ![0] = legacy_update_performance(grid[0], a)]
    /\ round' = round + 1
    /\ UNCHANGED <<config, history, predictions, new_grid, cell, pc,
                   iteration, frame, num_frames>>
    /\ UNCHANGED policy_vars

NextLegacyAgent ==
    \/ LegacyTestDecide
    \/ LegacyTestUpdatePerformance

SpecLegacyAgent == InitLegacyAgent /\ [][NextLegacyAgent]_vars

\* C21: in the legacy Agent, update_performance on an agent that has made no
\* prediction is fatal: the call does not return to the caller as a no-op
C21_LegacyUnpredictedScoreIsFatal ==
    [][(/\ pc = "legacy_test"
        /\ round' = round + 1
        /\ grid[0].last_prediction = None)
       => pc' = "panic"]_vars

----------------------------------------------------------------------------
\* C22: in the legacy Simulation the attendance history is append-only
\* across iterations: no step, the adaptation pass between two batches
\* included, discards an entry, and after n rounds in total the history the
\* policies decide on has n entries
C22_LegacyHistoryAppendOnly ==
    /\ [][IsPrefix(history, history')]_vars
    /\ [](pc = "rounds" => Len(history) = RoundsExecuted)

----------------------------------------------------------------------------
(* The neighbor scans of the two adapt_strategies, run cell by cell for a
   grid size and a neighbor_distance of any usize value. A usize is written
   <<h, l>> for h * 2^63 + l, which keeps the values next to 2^64 within
   reach. *)

MaxScanDistance == 4

\* usize::MAX = 2 * 2^63 - 1
UsizeMax == <<2, -1>>

\* the distances explored
ScanDistances ==
    {<<0, d>> : d \in 0..MaxScanDistance} \cup {UsizeMax, <<2, -2>>}

\* `x as isize`: x below 2^63, x - 2^64 for the values next to 2^64
AsIsize(x) == CASE x[1] = 0 -> x[2] [] x[1] = 2 -> x[2]

\* |a - b| <= x for cells a, b of a grid of side gs, in the integers
WithinManhattan(gs, a, b, x) ==
    \/ x[1] > 0
    \/ IAbs((a \div gs) - (b \div gs)) + IAbs((a % gs) - (b % gs)) <= x[2]

InitNeighbors ==
    /\ \E gs \in 0..NewMaxGrid, x \in ScanDistances :
          config = [TestConfig EXCEPT !.grid_size = gs, !.neighbor_distance = x]
    /\ grid = <<>>
    /\ history = <<>>
    /\ predictions = <<>>
    /\ new_grid = <<>>
    /\ cell = 0
    /\ pc = "scan"
    /\ iteration = 0
    /\ round = 0
    /\ frame = None
    /\ num_frames = 0
    /\ instance = None
    /\ weights = <<>>
    /\ lock = None
    /\ calls = <<>>

\* the neighbor loops of both programs for the next cell (i, j)
ScanCell ==
    /\ pc = "scan"
    /\ cell < NumCells(config)
    /\ LET nd == AsIsize(config.neighbor_distance)
       IN  calls' = Append(calls,
                           [box |-> BoxScan(config.grid_size, nd, cell),
                            full |-> FullScan(config.grid_size, nd, cell)])
    /\ cell' = cell + 1
    /\ UNCHANGED <<config, grid, history, predictions, new_grid, pc,
                   iteration, round, frame, num_frames, instance, weights, lock>>

NextNeighbors == ScanCell

SpecNeighbors == InitNeighbors /\ [][NextNeighbors]_vars

\* the cells of a scan result s, 0-based
ScannedSet(s) == {s[n] - 1 : n \in 1..Len(s)}

\* the list built for cell k - 1 is the Manhattan ball around it, each cell
\* once, the cell itself included, and the same from both scans
ScanIsBall(k) ==
    LET gs == config.grid_size
        ball == {b \in 0..(gs * gs - 1) :
                    WithinManhattan(gs, k - 1, b, config.neighbor_distance)}
    IN  /\ ScannedSet(calls[k].box) = ball
        /\ Len(calls[k].box) = Cardinality(ball)
        /\ (k - 1) \in ScannedSet(calls[k].box)
        /\ calls[k].box # <<>>
        /\ ScannedSet(calls[k].full) = ScannedSet(calls[k].box)
        /\ Len(calls[k].full) = Len(calls[k].box)

\* C23: for every cell, grid size and neighbor_distance d >= 0 the neighbor
\* list built by adapt_strategies is the set of in-grid cells within
\* Manhattan distance d, each once and without wrap-around; it contains the
\* cell itself and is never empty, and the bounding-box scan and the
\* full-grid scan give the same set
C23_NeighborSet == \A k \in 1..Len(calls) : ScanIsBall(k)

\* the same for the distances below 2^63
C23_NeighborSetBelowIsizeMax ==
    config.neighbor_distance[1] = 0 => \A k \in 1..Len(calls) : ScanIsBall(k)

----------------------------------------------------------------------------
(* MovingAveragePolicy on short histories *)

\* the mean of the last w entries of hist (w > 0, Len(hist) >= w)
MeanOfLast(w, hist) ==
    RDivInt(RSum(SubSeq(hist, Len(hist) - w + 1, Len(hist))), w)

\* C24: MovingAveragePolicy<W>.decide returns the mean of the last W history
\* values when the history has at least W entries, and 0.0 otherwise (empty
\* history, W = 0, or a window wider than the available history)
C24_MovingAverageFullWindowOrZero ==
    (instance # None /\ instance[1].kind = "MovingAverage")
        => \A i \in 1..Len(calls) :
               LET w == instance[1].size
                   h == calls[i].history
               IN  calls[i].value =
                       IF w > 0 /\ Len(h) >= w THEN MeanOfLast(w, h) ELSE Zero

\* what decide returns instead: the mean of the last min(W, len) values of a
\* history that is not empty, for W > 0
C24_MovingAveragePartialWindow ==
    (instance # None /\ instance[1].kind = "MovingAverage")
        => \A i \in 1..Len(calls) :
               LET w == instance[1].size
                   h == calls[i].history
                   n == IF Len(h) < w THEN Len(h) ELSE w
               IN  calls[i].value =
                       IF n > 0 THEN MeanOfLast(n, h) ELSE Zero

----------------------------------------------------------------------------
(* what a round and what an adaptation pass leave alone *)

\* every cell of g2 holds the policy it holds in g1
SamePolicies(g1, g2) ==
    DOMAIN g1 = DOMAIN g2 /\ \A k \in DOMAIN g1 : PolicyOf(g2, k) = PolicyOf(g1, k)

\* every cell of g2 has the last prediction it has in g1
SameLastPredictions(g1, g2) ==
    DOMAIN g1 = DOMAIN g2
    /\ \A k \in DOMAIN g1 : g2[k].last_prediction = g1[k].last_prediction

\* C25: a policy reference changes only inside adapt_strategies: the steps of
\* a Game.run round (and every step outside an adaptation pass) leave every
\* cell's policy unchanged, and the steps of an adaptation pass leave the
\* shared history and every agent's last prediction unchanged, in the game's
\* grid and in the grid the pass is writing
C25_FrameOfRoundAndAdaptation ==
    [][/\ pc # "adapt" => SamePolicies(grid, grid')
       /\ (pc = "adapt" \/ pc' = "adapt") =>
             /\ history' = history
             /\ SameLastPredictions(grid, grid')
             /\ SameLastPredictions(grid, new_grid')]_vars

\* an adaptation pass after at least one round has given some cell another
\* policy, and every agent has a last prediction
C25_Witness ==
    /\ pc = "adapt" /\ cell = NumCells(config)
    /\ history # <<>>
    /\ \A k \in CellsNow : grid[k].last_prediction # None
    /\ \E k \in CellsNow : PolicyOf(new_grid, k) # PolicyOf(grid, k)

----------------------------------------------------------------------------
(* bin/simulation.rs: a whole run, to its end *)

\* the configurations of the runs followed to their end: every number of
\* iterations and of rounds up to the bounds, grids of side 0 to 2, and a
\* list with a UniformPolicy::new(0.5, 0.5)
RunConfigs ==
    [grid_size : GridSizes,
     neighbor_distance : {MaxDistance},
     temperature : {Zero},
     policy_retention_rate : {Rat(1, 2)},
     num_iterations : 0..MaxIterations,
     rounds_per_update : 0..MaxRounds,
     initial_strategies : {<<AlwaysGoName, NeverGoName>>,
                           <<NeverGoName, DegenerateUniformName>>},
     start_random : {FALSE}]

InitRun ==
    /\ config \in RunConfigs
    /\ grid \in InitialGrids(config)
    /\ history = <<>>
    /\ predictions = <<>>
    /\ new_grid = grid
    /\ cell = 0
    /\ pc = "main"
    /\ iteration = 0
    /\ round = 0
    /\ frame = None
    /\ num_frames = 0
    /\ PolicyIdle

\* main runs on one thread and every call it makes returns or panics: a step
\* that can be taken is taken
SpecRun == InitRun /\ [][Next]_vars /\ WF_vars(Next)

\* the counts of a finished run
RunCounts ==
    /\ iteration = config.num_iterations
    /\ num_frames = config.num_iterations
    /\ Len(history) = config.num_iterations * config.rounds_per_update

\* C26: a run of num_iterations iterations always reaches its end, for every
\* configuration (grid_size 0 and rounds_per_update 0 included), having run
\* num_iterations * rounds_per_update rounds and num_iterations adaptation
\* passes and having emitted num_iterations Frames, with a history of
\* num_iterations * rounds_per_update entries
C26_RunTerminates ==
    /\ <>(pc = "done")
    /\ [](pc = "done" => RunCounts)

\* a run ends or panics
C26_RunTerminatesOrPanics == <>(pc \in {"done", "panic"})

\* a run that ends has the counts of the claim, and only a run with the
\* UniformPolicy::new(0.5, 0.5) panics
C26_CountsAtTheEnd ==
    /\ pc = "done" => RunCounts
    /\ pc = "panic" =>
           Configured(config.initial_strategies, DegenerateUniformName)

----------------------------------------------------------------------------
(* adoption is local *)

\* cells a and b of the configured grid are within neighbor_distance of each
\* other, in Manhattan distance
Near(a, b) ==
    IAbs(Row(config, a) - Row(config, b)) + IAbs(Col(config, a) - Col(config, b))
        <= config.neighbor_distance

\* the policy cell k holds in g2 is held in g1 by a cell near k
AdoptedNearby(g1, g2, k) ==
    \E n \in CellsNow : Near(k, n) /\ PolicyOf(g1, n) = PolicyOf(g2, k)

\* every cell near k, k included, holds in g the policy k holds
UniformAround(g, k) ==
    \A n \in CellsNow : Near(k, n) => PolicyOf(g, n) = PolicyOf(g, k)

\* every agent of g holds one of the configured policy instances
HoldsConfigured(g) ==
    \A k \in DOMAIN g : PolicyOf(g, k) \in 1..Len(config.initial_strategies)

\* C27: adoption is local. The policy a cell holds after an adaptation pass
\* was held, in the grid before the pass, by a cell within Manhattan distance
\* neighbor_distance of it (possibly itself), also while the pass is writing
\* its copy; so every cell always holds one of the configured policy
\* instances, and a cell whose neighborhood holds one policy throughout keeps
\* it through the pass
C27_AdoptionIsLocal ==
    /\ [](HoldsConfigured(grid) /\ HoldsConfigured(new_grid))
    /\ [](pc = "adapt" => \A k \in CellsNow : AdoptedNearby(grid, new_grid, k))
    /\ [][pc = "adapt" =>
            \A k \in CellsNow :
                /\ AdoptedNearby(grid, grid', k)
                /\ UniformAround(grid, k) => PolicyOf(grid', k) = PolicyOf(grid, k)]_vars

\* at the end of a pass on a grid of side 2 with neighbor_distance 1 a cell
\* holds a policy it took from a neighbor, which the cell across the diagonal
\* did not hold
C27_Witness ==
    /\ pc = "adapt" /\ cell = NumCells(config)
    /\ config.grid_size = 2 /\ config.neighbor_distance = 1
    /\ \E k \in CellsNow :
          /\ PolicyOf(new_grid, k) # PolicyOf(grid, k)
          /\ \E n \in CellsNow :
                /\ ~Near(k, n)
                /\ PolicyOf(grid, n) # PolicyOf(new_grid, k)

----------------------------------------------------------------------------
(* extinction *)

\* the policy instances held by some cell of g
PoliciesPresent(g) == {PolicyOf(g, k) : k \in DOMAIN g}

\* C28: extinction is absorbing. No step brings a policy to the grid that no
\* cell held before it, and the copy an adaptation pass is writing holds only
\* policies of the grid before the pass: once no cell holds a policy, no cell
\* holds it later, and the set of policies present never grows
C28_ExtinctionIsAbsorbing ==
    /\ [][PoliciesPresent(grid') \subseteq PoliciesPresent(grid)]_vars
    /\ [](pc = "adapt" => PoliciesPresent(new_grid) \subseteq PoliciesPresent(grid))

\* the corner setup of a 2x2 grid starts with policies 1 and 3 on the grid;
\* the first pass has left one of them on no cell, and the second pass has run
C28_Witness ==
    /\ config.initial_strategies = <<AlwaysGoName, NeverGoName, YesterdayName>>
    /\ ~config.start_random
    /\ config.grid_size = 2
    /\ iteration = 1
    /\ pc = "adapt" /\ cell = NumCells(config)
    /\ \E p \in {1, 3} : p \notin PoliciesPresent(grid)

----------------------------------------------------------------------------
(* agents that hold the same policy *)

\* cells a and b of g hold the same policy instance, and it is not random
SameDeterministicPolicy(g, a, b) ==
    /\ PolicyOf(g, a) = PolicyOf(g, b)
    /\ PolicyName(PolicyOf(g, a)) # RandomName

\* C29: when an adaptation pass begins, any two cells of the grid the
\* neighbors are read from (which no step of the pass changes) that hold the
\* same instance of a policy that is not random have the same last prediction
\* and the same performance(): the performance a neighbor list carries
\* depends only on the policy held
C29_SamePolicySamePerformance ==
    (pc = "adapt" /\ cell = 0) =>
        \A a, b \in CellsNow :
            (a < b /\ SameDeterministicPolicy(grid, a, b)) =>
                /\ grid[a].last_prediction = grid[b].last_prediction
                /\ performance(grid[a]) = performance(grid[b])

\* a pass is under way after two rounds; two cells hold the same policy and
\* have a record, and a third cell holds another policy and performs
\* differently
C29_Witness ==
    /\ pc = "adapt"
    /\ \E a, b, c \in CellsNow :
          /\ a # b
          /\ SameDeterministicPolicy(grid, a, b)
          /\ Len(grid[a].performance_history) = 2
          /\ grid[a].last_prediction # None
          /\ PolicyOf(grid, c) # PolicyOf(grid, a)
          /\ performance(grid[c]) # performance(grid[a])

----------------------------------------------------------------------------
(* what a Frame reports *)

\* the history as it stood when the last round began
BeforeLastRound(hist) == SubSeq(hist, 1, Len(hist) - 1)

\* v is a value the policy instance p can produce in the last round run
MadeInLastRoundBy(p, v) ==
    \E rnd \in PolicyDraws(PolicyName(p)) :
        v = PolicyDecide(PolicyName(p), BeforeLastRound(history), rnd)

\* the value a Frame reports for an Option<f64>: unwrap_or(0.0)
UnwrapOrZero(o) == IF o # None THEN o[1] ELSE Zero

\* C30: in every Frame, predictions[cell] is the value produced in the last
\* round of the iteration by the policy the cell held before that iteration's
\* adaptation pass (0.0 when no round was run), and policy_ids[cell] is the id
\* of the policy it holds after the pass: the pass hands the last predictions
\* of the grid it read to the grid it wrote, and the Frame is read from that
\* grid
C30_FramePredictionsPrecedePolicies ==
    /\ [](pc = "adapt" =>
            \A k \in CellsNow :
                IF config.rounds_per_update > 0
                THEN /\ grid[k].last_prediction # None
                     /\ MadeInLastRoundBy(PolicyOf(grid, k), grid[k].last_prediction[1])
                ELSE grid[k].last_prediction = None)
    /\ [][(pc = "adapt" /\ pc' = "frame") =>
            \A k \in CellsNow :
                /\ grid'[k].last_prediction = grid[k].last_prediction
                /\ PolicyOf(grid', k) = PolicyOf(new_grid, k)]_vars
    /\ [][pc = "frame" =>
            /\ frame' # None
            /\ \A k \in CellsNow :
                  /\ frame'[1].predictions[k] = UnwrapOrZero(grid[k].last_prediction)
                  /\ frame'[1].policy_ids[k] =
                        StrategyIdOf(config.initial_strategies,
                                     PolicyName(PolicyOf(grid, k)))]_vars

\* a Frame has been emitted after an iteration with a round; a cell of it
\* holds a policy that is not random, and the prediction reported for the
\* cell is not what that policy predicts on the history of the last round
C30_Witness ==
    /\ pc = "main" /\ frame # None /\ history # <<>>
    /\ \E k \in CellsNow :
          /\ PolicyName(PolicyOf(grid, k)) # RandomName
          /\ frame[1].policy_ids[k] =
                StrategyIdOf(config.initial_strategies, PolicyName(PolicyOf(grid, k)))
          /\ frame[1].predictions[k] #
                PolicyDecide(PolicyName(PolicyOf(grid, k)),
                             BeforeLastRound(history), Zero)

====
